---- MODULE Spec2Model ----
(***************************************************************************)
(* A model of the logging pipeline of go-aws-lambda-sdk (pkg/logger):      *)
(*   - the logger orchestrator (sink registry, printWithLevel fan-out),    *)
(*   - BufferedSink (queue, idle-flush timer, flush),                      *)
(*   - RotatingFileSink (size-triggered rotation over a small file system),*)
(*   - FilterSink (level allow-set in front of a wrapped sink),            *)
(*   - WriterSink written to by several goroutines,                        *)
(*   - the context values of WithValue / GetValue (SpecCtx).               *)
(* Each subsystem has its own specification (SpecLog, SpecLogConc, SpecBuf,*)
(* SpecBufConc, SpecRot, SpecRotConc, SpecFil, SpecWri); the variables of  *)
(* the other subsystems rest at their initial value.  SpecRotConc runs the *)
(* steps of RotatingFileSink.Write and Close of several goroutines one at  *)
(* a time; SpecBufConc runs the steps of BufferedSink.Write against the    *)
(* goroutines of the idle-flush timers, and SpecBufLive adds the owner's   *)
(* Flush calls and the fairness of the scheduler.  SpecMap, SpecBody and   *)
(* SpecSvc model maps.MapParallelErr, service.WithReadBody and service.New.*)
(***************************************************************************)
EXTENDS Integers, Sequences, FiniteSets, TLC

VARIABLES
    \* ---- logger (logger.go) ----
    sinks,        \* logger.sinks: the registry, a sequence of sink handles
    beh,          \* how each sink's Write behaves: "ok", "fail" or "flaky"
    pc,           \* position of the log call in printWithLevel
    rangeSinks,   \* the slice the range loop iterates (read once at loop start)
    idx,          \* 1-based position of the range loop
    msg,          \* the Message built by printWithLevel
    calls,        \* Write invocations made by the current log call, in order
    stderr,       \* last-resort lines printed to os.Stderr by the current call
    \* ---- BufferedSink ----
    buffer,       \* BufferedSink.buffer
    bufferSize,   \* BufferedSink.bufferSize
    flushTimer,   \* BufferedSink.flushTimer: "nil", "armed", "expired" ("stopped")
    callbacks,    \* timer callbacks that fired and have not yet run s.Flush()
    forwarded,    \* what the wrapped sink accepted, in order
    nWrites,      \* number of BufferedSink.Write calls received
    everExpired,  \* some idle-flush timer has expired
    everFlushed,  \* Flush() has been called explicitly
    bufLast,      \* record of the last BufferedSink operation
    bufMutex,     \* BufferedSink.mutex: "none" or the goroutine holding it
    bufPc,        \* position of the writing goroutine in BufferedSink.Write
    timerGen,     \* the write that armed the timer in flushTimer (0: none)
    fired,        \* timers whose callback goroutine has started and not yet run
    lastTimerFlush, \* record of the last flush run by a timer callback
    \* ---- RotatingFileSink ----
    disk,         \* index i |-> the file <base>.i (index 0 is <base>)
    currentFile,  \* "nil", "open" or "closed"
    currentSize,  \* RotatingFileSink.currentSize
    maxSize,      \* RotatingFileSink.maxSize
    maxFiles,     \* RotatingFileSink.maxFiles
    nLines,       \* number of RotatingFileSink.Write calls received
    cumSize,      \* cumulative serialized size of the lines written to this sink
    clean,        \* every Write to this sink has returned nil so far
    rotLast,      \* record of the last RotatingFileSink operation
    rotMutex,     \* RotatingFileSink.mutex: "none" or the goroutine holding it
    rotPc,        \* goroutine |-> its position in Write or Close
    rotLine,      \* goroutine |-> [w, len]: the line its Write serialized
    rotRotated,   \* goroutine |-> its Write has completed a rotation
    \* ---- FilterSink ----
    levels,       \* FilterSink.levels: the levels mapped to true
    filWritten,   \* the records given to FilterSink.Write, in order
    filReceived,  \* the records the wrapped sink's Write received, in order
    filLast,      \* record of the last FilterSink.Write
    \* ---- WriterSink over an in-memory io.Writer, several goroutines ----
    wriPc,        \* goroutine |-> its position in WriterSink.Write
    wriOff,       \* goroutine |-> the end of the buffer its Writer.Write loaded
    wriBuf,       \* the lines the io.Writer holds, in order
    wriDone,      \* goroutine |-> number of its Write calls that returned nil
    \* ---- context values (WithValue / GetValue) ----
    ctxs,         \* the contexts made so far; ctxs[1] is context.Background()
    ctxMaps,      \* the ContextValue maps allocated so far
    ctxCall,      \* goroutine |-> its WithValue call in progress
    ctxRecord,    \* the record a log call built and dispatched (the one observed)
    \* sink registry, operation by operation
    regHist,      \* the last two registry operations, oldest first
    \* retry.With
    retCfg,       \* the Config passed to With
    retPc,        \* position of the call
    attempt,      \* loop variable
    res,          \* var res T
    err,          \* var err error
    retLog,       \* invocations of Action and of the callbacks, in order
    retOut,       \* what With returned
    \* FileSink
    fileData,     \* content of the file s.file is open on: lines, oldest first
    fileInit,     \* the content the file had when NewFileSink opened it
    fileOpen,     \* s.file has not been closed
    fileDurable,  \* how many lines of fileData the last successful Sync covered
    fileWrites,   \* number of FileSink.Write calls made
    fileAccepted, \* records of the calls that returned nil, in lock order
    fileLast,     \* the last FileSink operation and what it did
    \* NewFileSink and the filesystem
    fs,           \* the entries of the filesystem below the working directory
    newCalls,     \* the NewFileSink calls made, oldest first
    \* ConsoleSink
    stdout,       \* characters written to os.Stdout by ConsoleSink
    conStderr,    \* characters written to os.Stderr by ConsoleSink
    conWrites,    \* number of ConsoleSink.Write calls made
    conLast,      \* the last ConsoleSink.Write and what it did
    \* the logger over a first sink that wraps a destination
    firstSink,    \* what the first registered sink is
    firstQueue,   \* messages queued in the first sink, when it is a BufferedSink
    firstReached, \* messages that reached the destination behind the first
                  \* sink during the current log call
    \* maps.MapParallelErr (pkg/util/maps)
    mapIteratee,  \* what iteratee(item, i) returns for each item of collection
    mapPc,        \* position of the MapParallelErr call
    mapRunning,   \* the goroutines of errG.Go that have not returned
    syncStore,    \* the entries of the sync.Map: <<key, value>>
    mapErr,       \* the first error a goroutine of errG returned
    mapResult,    \* the slice result that syncStore.Range appends to
    mapVisited,   \* the keys syncStore.Range has visited
    mapOut,       \* what MapParallelErr returned
    \* service.WithReadBody (pkg/service)
    reqBody,      \* the bytes of the request body
    reqDebug,     \* s.IsRequestDebugEnabled()
    cbReturns,    \* what callback(model) returns when it is called
    bodyPc,       \* position of the WithReadBody call
    readOut,      \* what ReadBody returned
    responses,    \* the responses c.JSON has emitted for the request
    errorLog,     \* the lines s.Logger().Errorf has logged
    bodyOut,      \* what WithReadBody returned, and whether callback ran
    \* service.New (pkg/service)
    svcEnv,       \* the environment variables of the process
    svcUser,      \* the options the caller passed to New
    svcOpts,      \* opts: the options New has still to apply
    svc,          \* the fields of the service s
    svcPc,        \* position of the New call
    svcLast,      \* the last option applied, with s before and after it
    svcOut        \* what New returned

logVars == <<sinks, beh, pc, rangeSinks, idx, msg, calls, stderr>>
bufVars == <<buffer, bufferSize, flushTimer, callbacks, forwarded, nWrites,
             everExpired, everFlushed, bufLast>>
rotVars == <<disk, currentFile, currentSize, maxSize, maxFiles, nLines,
             cumSize, clean, rotLast>>
bufConcVars == <<bufMutex, bufPc, timerGen, fired, lastTimerFlush>>
rotConcVars == <<rotMutex, rotPc, rotLine, rotRotated>>
filVars == <<levels, filWritten, filReceived, filLast>>
wriVars == <<wriPc, wriOff, wriBuf, wriDone>>
ctxVars == <<ctxs, ctxMaps, ctxCall>>
recVars == <<ctxRecord>>
regVars == <<regHist>>
retryVars == <<retCfg, retPc, attempt, res, err, retLog, retOut>>
fileVars == <<fileData, fileInit, fileOpen, fileDurable, fileWrites, fileAccepted,
              fileLast>>
fsVars == <<fs, newCalls>>
conVars == <<stdout, conStderr, conWrites, conLast>>
visVars == <<firstSink, firstQueue, firstReached>>
mapVars == <<mapIteratee, mapPc, mapRunning, syncStore, mapErr, mapResult,
             mapVisited, mapOut>>
bodyVars == <<reqBody, reqDebug, cbReturns, bodyPc, readOut, responses,
              errorLog, bodyOut>>
svcVars == <<svcEnv, svcUser, svcOpts, svc, svcPc, svcLast, svcOut>>
utilVars == <<mapVars, bodyVars, svcVars>>
auxVars == <<regVars, retryVars, fileVars, fsVars, conVars, visVars, utilVars>>
vars == <<logVars, bufVars, bufConcVars, rotVars, rotConcVars, filVars, wriVars,
          ctxVars, recVars, auxVars>>

(***************************************************************************)
(* Bounds of the model.                                                    *)
(***************************************************************************)
MaxSinks == 3
MaxBufferSize == 3
MaxWrites == 4
MaxForwarded == 6
MaxMaxSize == 2
MaxMaxFiles == 2
MaxLines == 3
MaxConcLines == 2
MaxBufConcWrites == 2
MaxFilWrites == 3
MaxWriterWrites == 3
MaxCtxs == 4
MaxMaxRetries == 3
MaxFileWrites == 3
MaxPathLen == 3
MaxNewFileSinks == 2
MaxTextLen == 2
MaxConsoleWrites == 2
MaxFirstBuffer == 2
MaxItems == 3
MaxBodyLen == 2
MaxUserOptions == 2

(***************************************************************************)
(* Logger orchestrator                                                     *)
(***************************************************************************)
Info == "INFO"
Error == "ERROR"
Warn == "WARN"
Levels == {Info, Warn, Error}

SinkIds == {"s1", "s2"}
Behaviours == {"ok", "fail", "flaky"}

SeqsUpTo(S, n) == UNION {[1..k -> S] : k \in 0..n}

\* The results a sink's Write can produce for one invocation (TRUE: nil error).
Outcomes(s) ==
    CASE beh[s] = "ok"   -> {TRUE}
      [] beh[s] = "fail" -> {FALSE}
      [] OTHER           -> BOOLEAN

\* Message{Level: level, Message: fmt.Sprintf(format, args...), ...}
Message(level) == [kind |-> "log", level |-> level, about |-> 0]

\* Message{Level: Error, Message: "Logger sink error", Context: {"error": err}}
SinkErrorMessage(i) == [kind |-> "report", level |-> Error, about |-> i]

LogIdle == pc \in {"idle", "returned"}

\* NewLogger / NewLoggerWithSinks(sinks...)
LogInit ==
    /\ sinks \in SeqsUpTo(SinkIds, MaxSinks)
    /\ beh \in [SinkIds -> Behaviours]
    /\ pc = "idle"
    /\ rangeSinks = <<>>
    /\ idx = 0
    /\ msg = Message(Info)
    /\ calls = <<>>
    /\ stderr = <<>>

LogRest ==
    /\ sinks = <<>>
    /\ beh = [s \in SinkIds |-> "ok"]
    /\ pc = "idle"
    /\ rangeSinks = <<>>
    /\ idx = 0
    /\ msg = Message(Info)
    /\ calls = <<>>
    /\ stderr = <<>>

\* append(l.sinks, sink)
SinkPrepended(s) == <<s>> \o sinks

SinkAppended(s) == Append(sinks, s)

\* l.sinks = append(l.sinks, sink)
AddSink(s) ==
    /\ LogIdle
    /\ Len(sinks) < MaxSinks
    /\ sinks' = SinkAppended(s)
    /\ pc' = "idle"
    /\ UNCHANGED <<beh, rangeSinks, idx, msg, calls, stderr>>

\* l.sinks = lo.Filter(l.sinks, func(s) bool { return s != sink })
RemoveSink(s) ==
    /\ LogIdle
    /\ sinks' = SelectSeq(sinks, LAMBDA x : x # s)
    /\ pc' = "idle"
    /\ UNCHANGED <<beh, rangeSinks, idx, msg, calls, stderr>>

\* printWithLevel, up to the start of the range loop over l.sinks
printWithLevel(level) ==
    /\ LogIdle
    /\ msg' = Message(level)
    /\ rangeSinks' = sinks
    /\ idx' = 1
    /\ calls' = <<>>
    /\ stderr' = <<>>
    /\ pc' = "range"
    /\ UNCHANGED <<sinks, beh>>

Infof == printWithLevel(Info)

Warnf == printWithLevel(Warn)

Errorf == printWithLevel(Error)

\* The loop position after the error branch ran for position i: the branch
\* falls through and the range loop goes on with the next sink.
ResumeAbort(i) == Len(rangeSinks) + 1

ResumeSkip(i) == i + 2

ResumeAfterFailure(i) == i + 1

\* The sink the failure report is written to: l.sinks[0].
FallbackSinkSame == rangeSinks[idx]

FallbackSink == sinks[1]

\* if err := sink.Write(msg); err != nil { ... }
SinkWrite ==
    /\ pc = "range"
    /\ idx <= Len(rangeSinks)
    /\ \E ok \in Outcomes(rangeSinks[idx]) :
          /\ calls' = Append(calls, [sink |-> rangeSinks[idx], msg |-> msg, ok |-> ok])
          /\ IF ok
                THEN /\ idx' = idx + 1
                     /\ pc' = "range"
                ELSE /\ idx' = idx
                     /\ pc' = "fallback"
    /\ UNCHANGED <<sinks, beh, rangeSinks, msg, stderr>>

\* err2 := l.sinks[0].Write(Message{Level: Error, Message: "Logger sink error", ...})
FallbackWrite ==
    /\ pc = "fallback"
    /\ IF Len(sinks) = 0
          THEN /\ pc' = "panic"     \* index out of range on l.sinks[0]
               /\ UNCHANGED <<idx, calls>>
          ELSE \E ok \in Outcomes(FallbackSink) :
                  /\ calls' = Append(calls, [sink |-> FallbackSink,
                                             msg |-> SinkErrorMessage(idx),
                                             ok |-> ok])
                  /\ IF ok
                        THEN /\ idx' = ResumeAfterFailure(idx)
                             /\ pc' = "range"
                        ELSE /\ idx' = idx
                             /\ pc' = "stderr"
    /\ UNCHANGED <<sinks, beh, rangeSinks, msg, stderr>>

\* if err2 != nil { fmt.Fprintf(os.Stderr, "Logger sink error: %v\n", err) }
StderrWrite ==
    /\ pc = "stderr"
    /\ stderr' = Append(stderr, idx)
    /\ idx' = ResumeAfterFailure(idx)
    /\ pc' = "range"
    /\ UNCHANGED <<sinks, beh, rangeSinks, msg, calls>>

\* the range loop is exhausted: printWithLevel returns
LogReturn ==
    /\ pc = "range"
    /\ idx > Len(rangeSinks)
    /\ pc' = "returned"
    /\ UNCHANGED <<sinks, beh, rangeSinks, idx, msg, calls, stderr>>

LogInProgress == pc \in {"range", "fallback", "stderr"}

\* AddSink called by another goroutine while a log call is in printWithLevel:
\* logger has no lock, the assignment to l.sinks takes effect at once.  (The
\* unsynchronized read of l.sinks is taken as reading the value before or
\* after the assignment.)
ConcurrentAddSink(s) ==
    /\ LogInProgress
    /\ Len(sinks) < MaxSinks
    /\ sinks' = Append(sinks, s)
    /\ UNCHANGED <<beh, pc, rangeSinks, idx, msg, calls, stderr>>

\* RemoveSink called by another goroutine while a log call is in printWithLevel
ConcurrentRemoveSink(s) ==
    /\ LogInProgress
    /\ sinks' = SelectSeq(sinks, LAMBDA x : x # s)
    /\ UNCHANGED <<beh, pc, rangeSinks, idx, msg, calls, stderr>>


(***************************************************************************)
(* Properties of the logger orchestrator (checked under SpecLog)           *)
(***************************************************************************)
\* The Write invocations of the current call that carry the built record.
LogCalls == SelectSeq(calls, LAMBDA c : c.msg.kind = "log")

\* The Write invocations of the current call that carry a failure report.
ReportCalls == SelectSeq(calls, LAMBDA c : c.msg.kind = "report")

FailedIn(s) == Len(SelectSeq(s, LAMBDA c : ~c.ok))

DeliveredAt(j) ==
    \E n \in 1..Len(calls) :
        calls[n] = [sink |-> rangeSinks[j], msg |-> msg, ok |-> TRUE]

LogCanProceed ==
    \/ ENABLED SinkWrite
    \/ ENABLED FallbackWrite
    \/ ENABLED StderrWrite
    \/ ENABLED LogReturn

\* C1 (failure isolation): when a log call has returned and the registry held a
\* sink whose Write fails and a sink whose Write succeeds, in either order, the
\* succeeding sink has received the record; the call never panics and a call in
\* progress can always go on to its return.
C1_FailureIsolation ==
    /\ pc # "panic"
    /\ LogInProgress => LogCanProceed
    /\ pc = "returned" =>
          \A i, j \in 1..Len(rangeSinks) :
              (beh[rangeSinks[i]] = "fail" /\ beh[rangeSinks[j]] = "ok")
                  => DeliveredAt(j)

\* A returned call over [ok, fail, ok]: the good sinks before and after the
\* failing one both hold the record.
C1_Witness ==
    /\ pc = "returned"
    /\ Len(rangeSinks) = 3
    /\ beh[rangeSinks[1]] = "ok"
    /\ beh[rangeSinks[2]] = "fail"
    /\ beh[rangeSinks[3]] = "ok"
    /\ DeliveredAt(1)
    /\ DeliveredAt(3)
    /\ FailedIn(LogCalls) = 1

\* C2 (fan-out): the Write invocations that carry the built record go to the
\* registry entries in registration order, one per entry, whatever the sinks
\* return; when the call returns every entry has had its invocation.
C2_FanOut ==
    LET lc == LogCalls IN
    /\ Len(lc) <= Len(rangeSinks)
    /\ \A n \in 1..Len(lc) : lc[n].sink = rangeSinks[n] /\ lc[n].msg = msg
    /\ pc = "range" => Len(lc) = idx - 1
    /\ pc \in {"fallback", "stderr"} => Len(lc) = idx
    /\ pc = "returned" => Len(lc) = Len(rangeSinks)

\* A returned call over three entries, the first of which failed.
C2_Witness ==
    /\ pc = "returned"
    /\ Len(rangeSinks) = 3
    /\ rangeSinks[1] # rangeSinks[2]
    /\ ~LogCalls[1].ok
    /\ LogCalls[3].ok

\* C3 (bounded fallback): every failure report goes to the first registered
\* sink, one report per failed Write of the record; the stderr line is printed
\* exactly for the reports whose Write failed too; reports are not re-dispatched,
\* so a call over n sinks makes at most 2n Write invocations, and it returns.
C3_BoundedFallback ==
    /\ \A n \in 1..Len(calls) :
          calls[n].msg.kind = "report"
              => /\ calls[n].sink = rangeSinks[1]
                 /\ calls[n].msg.level = Error
                 /\ n > 1
                 /\ calls[n - 1].msg.kind = "log"
                 /\ ~calls[n - 1].ok
    /\ Len(ReportCalls) = FailedIn(LogCalls) - (IF pc = "fallback" THEN 1 ELSE 0)
    /\ Len(stderr) = FailedIn(ReportCalls) - (IF pc = "stderr" THEN 1 ELSE 0)
    /\ Len(calls) <= 2 * Len(rangeSinks)
    /\ pc # "panic"
    /\ LogInProgress => LogCanProceed

\* A returned call in which every sink failed: 2n invocations, n stderr lines.
C3_Witness ==
    /\ pc = "returned"
    /\ Len(rangeSinks) >= 2
    /\ rangeSinks[1] # rangeSinks[2]
    /\ Len(calls) = 2 * Len(rangeSinks)
    /\ Len(stderr) = Len(rangeSinks)

\* C13 (registry safe under concurrent reconfiguration; checked under
\* SpecLogConc, where AddSink and RemoveSink run while a log call is in
\* progress): the fallback access to the first registered sink never finds the
\* registry emptied, so the log call is never aborted.
C13_RegistrySerialized == pc # "panic"


(***************************************************************************)
(* BufferedSink                                                            *)
(***************************************************************************)
NoBufOp == [op |-> "none", ran |-> FALSE, batch |-> <<>>, k |-> 0,
            pre |-> <<>>, ret |-> "nil"]

\* NewBufferedSink(sink, bufferSize, flushDelay)
BufInit ==
    /\ bufferSize \in 1..MaxBufferSize
    /\ buffer = <<>>
    /\ flushTimer = "nil"
    /\ callbacks = 0
    /\ forwarded = <<>>
    /\ nWrites = 0
    /\ everExpired = FALSE
    /\ everFlushed = FALSE
    /\ bufLast = NoBufOp

BufRest ==
    /\ bufferSize = 1
    /\ buffer = <<>>
    /\ flushTimer = "nil"
    /\ callbacks = 0
    /\ forwarded = <<>>
    /\ nWrites = 0
    /\ everExpired = FALSE
    /\ everFlushed = FALSE
    /\ bufLast = NoBufOp

\* if len(s.buffer) >= s.bufferSize { return s.flush() }
BufferFullStrict(buf) == Len(buf) > bufferSize

BufferFull(buf) == Len(buf) >= bufferSize

\* The queue a flush leaves behind when the wrapped sink failed: flush returns
\* from inside the loop, before "s.buffer = s.buffer[:0]".
BufferAfterFailedFlushDiscard(buf, k) == <<>>

BufferAfterFailedFlush(buf, k) == buf

\* The records a flush hands to the wrapped sink before it stops: the first k
\* of the batch are accepted (k = Len(buf): all of them, no failure).
ForwardedByFlush(buf, k) == SubSeq(buf, 1, k)

\* s.flush() on queue buf, timer tmr, with the wrapped sink accepting the first
\* k records of the batch and failing on record k+1 (if k < Len(buf)).
flush(buf, tmr, fwd, k) ==
    IF Len(buf) = 0
       THEN [buffer |-> buf, flushTimer |-> tmr, forwarded |-> fwd,
             ret |-> "nil", ran |-> FALSE]
       ELSE IF k = Len(buf)
               THEN [buffer |-> <<>>, flushTimer |-> "nil",
                     forwarded |-> fwd \o ForwardedByFlush(buf, k),
                     ret |-> "nil", ran |-> TRUE]
               ELSE [buffer |-> BufferAfterFailedFlush(buf, k), flushTimer |-> tmr,
                     forwarded |-> fwd \o ForwardedByFlush(buf, k),
                     ret |-> "err", ran |-> TRUE]

\* The numbers of records the wrapped sink may accept from batch buf.
FlushChoices(buf) ==
    IF Len(buf) = 0 THEN {0}
    ELSE {k \in 0..Len(buf) : Len(forwarded) + k <= MaxForwarded}

ApplyFlush(op, buf, tmr, k) ==
    LET r == flush(buf, tmr, forwarded, k) IN
    /\ buffer' = r.buffer
    /\ flushTimer' = r.flushTimer
    /\ forwarded' = r.forwarded
    /\ bufLast' = [op |-> op, ran |-> r.ran, batch |-> buf, k |-> k,
                   pre |-> forwarded, ret |-> r.ret]

\* func (s *BufferedSink) Write(msg Message) error
BufferedWrite ==
    /\ nWrites < MaxWrites
    /\ nWrites' = nWrites + 1
    /\ LET buf == Append(buffer, nWrites + 1) IN
       \* the old timer is stopped and a new one armed by time.AfterFunc
       IF BufferFull(buf)
          THEN \E k \in FlushChoices(buf) : ApplyFlush("Write", buf, "armed", k)
          ELSE /\ buffer' = buf
               /\ flushTimer' = "armed"
               /\ bufLast' = [op |-> "Write", ran |-> FALSE, batch |-> buf,
                              k |-> 0, pre |-> forwarded, ret |-> "nil"]
               /\ UNCHANGED forwarded
    /\ UNCHANGED <<bufferSize, callbacks, everExpired, everFlushed>>

\* func (s *BufferedSink) Flush() error, called by the owner of the sink
BufferedFlush ==
    /\ \E k \in FlushChoices(buffer) : ApplyFlush("Flush", buffer, flushTimer, k)
    /\ everFlushed' = TRUE
    /\ UNCHANGED <<bufferSize, callbacks, nWrites, everExpired>>

\* the timer armed by time.AfterFunc expires: its callback is started
TimerExpire ==
    /\ flushTimer = "armed"
    /\ flushTimer' = "expired"
    /\ callbacks' = callbacks + 1
    /\ everExpired' = TRUE
    /\ UNCHANGED <<buffer, bufferSize, forwarded, nWrites, everFlushed, bufLast>>

\* the callback func() { s.Flush() } gets the lock and runs
TimerCallback ==
    /\ callbacks > 0
    /\ callbacks' = callbacks - 1
    /\ \E k \in FlushChoices(buffer) : ApplyFlush("Timer", buffer, flushTimer, k)
    /\ UNCHANGED <<bufferSize, nWrites, everExpired, everFlushed>>


(***************************************************************************)
(* Properties of BufferedSink (checked under SpecBuf)                      *)
(***************************************************************************)
\* The records of the first n writes, in the order they were written.
FirstWrites(n) == [i \in 1..n |-> i]

SeqRange(s) == {s[i] : i \in 1..Len(s)}

\* The sink has seen neither a timer expiry nor an explicit Flush.
OnlyWrites == ~everExpired /\ ~everFlushed

\* C4 (buffering invariant): with capacity N, after k < N writes and neither
\* timer expiry nor Flush nothing has been forwarded and the k records are
\* queued in order; the N-th write flushes: it forwards the records in the
\* order they were written, all N of them when the wrapped sink accepts them
\* (which is exactly when that Write returns nil), and otherwise those before
\* the first record the wrapped sink rejects.
C4_BufferingInvariant ==
    OnlyWrites =>
        /\ nWrites < bufferSize =>
              /\ forwarded = <<>>
              /\ buffer = FirstWrites(nWrites)
        /\ nWrites = bufferSize =>
              /\ bufLast.op = "Write"
              /\ bufLast.ran
              /\ forwarded = FirstWrites(bufLast.k)
              /\ bufLast.ret = "nil" <=> forwarded = FirstWrites(bufferSize)

\* The N-th write of a sink of capacity N >= 2 forwarded all N records.
C4_Witness ==
    /\ bufferSize >= 2
    /\ OnlyWrites
    /\ nWrites = bufferSize
    /\ bufLast.ret = "nil"
    /\ forwarded = FirstWrites(bufferSize)

C6_QueueBound == Len(buffer) <= bufferSize

\* C29 (at-most-once delivery): whatever the sequence of writes, flushes,
\* timer firings and wrapped-sink failures, no record reaches the wrapped sink
\* twice.
C29_AtMostOnce ==
    \A i, j \in 1..Len(forwarded) : forwarded[i] = forwarded[j] => i = j

\* C30 (eventual delivery), in the form a finite run refutes: a record that
\* Write accepted and that the wrapped sink has not been sent yet always has an
\* idle-flush timer armed or a timer callback waiting to run, also after a
\* flush attempt that failed; with neither, nothing forwards the record unless
\* Write or Flush is called again, however long the wrapped sink then accepts.
C30_DeliveryPending ==
    (\E i \in 1..Len(buffer) : buffer[i] \notin SeqRange(forwarded)) =>
        (flushTimer = "armed" \/ callbacks > 0)

\* C17 (timer-armed invariant): in every quiescent state (no operation runs
\* and no timer callback is waiting to run), if the queue is non-empty then
\* an idle-flush timer is armed and has not fired.
C17_TimerArmed ==
    (callbacks = 0 /\ buffer # <<>>) => flushTimer = "armed"

(***************************************************************************)
(* BufferedSink.Write step by step, with the goroutines that time.AfterFunc*)
(* starts for the timers that fire.  flushTimer is "stopped" for a timer   *)
(* that Stop() cancelled before it fired.                                  *)
(***************************************************************************)
NoTimerFlush == [t |-> 0, sent |-> <<>>, ran |-> FALSE]

BufConcRest ==
    /\ bufMutex = "none"
    /\ bufPc = "idle"
    /\ timerGen = 0
    /\ fired = {}
    /\ lastTimerFlush = NoTimerFlush

\* Write: s.mutex.Lock(); s.buffer = append(s.buffer, msg)
BufWriteAppend ==
    /\ bufPc = "idle"
    /\ bufMutex = "none"
    /\ nWrites < MaxBufConcWrites
    /\ bufMutex' = "writer"
    /\ nWrites' = nWrites + 1
    /\ buffer' = Append(buffer, nWrites + 1)
    /\ bufPc' = "stop"
    /\ UNCHANGED <<flushTimer, forwarded, timerGen, fired, lastTimerFlush>>

\* Write: if s.flushTimer != nil { s.flushTimer.Stop() }; Stop does nothing to
\* a timer that has fired
BufWriteStopTimer ==
    /\ bufPc = "stop"
    /\ flushTimer' = IF flushTimer = "armed" THEN "stopped" ELSE flushTimer
    /\ bufPc' = "arm"
    /\ UNCHANGED <<buffer, forwarded, nWrites, bufMutex, timerGen, fired,
                   lastTimerFlush>>

\* Write: s.flushTimer = time.AfterFunc(s.flushDelay, func() { s.Flush() })
BufWriteArmTimer ==
    /\ bufPc = "arm"
    /\ flushTimer' = "armed"
    /\ timerGen' = nWrites
    /\ bufPc' = "check"
    /\ UNCHANGED <<buffer, forwarded, nWrites, bufMutex, fired, lastTimerFlush>>

\* Write: if len(s.buffer) >= s.bufferSize { return s.flush() }
BufWriteCheckFull ==
    /\ bufPc = "check"
    /\ IF BufferFull(buffer)
          THEN \E k \in FlushChoices(buffer) :
                  LET r == flush(buffer, flushTimer, forwarded, k) IN
                  /\ buffer' = r.buffer
                  /\ flushTimer' = r.flushTimer
                  /\ forwarded' = r.forwarded
          ELSE UNCHANGED <<buffer, flushTimer, forwarded>>
    /\ bufPc' = "unlock"
    /\ UNCHANGED <<nWrites, bufMutex, timerGen, fired, lastTimerFlush>>

\* The holder of s.mutex after Unlock().
MutexKept == "writer"

MutexReleased == "none"

\* Write: the deferred s.mutex.Unlock()
BufWriteUnlock ==
    /\ bufPc = "unlock"
    /\ bufMutex' = MutexReleased
    /\ bufPc' = "idle"
    /\ UNCHANGED <<buffer, flushTimer, forwarded, nWrites, timerGen, fired,
                   lastTimerFlush>>

\* the timer in s.flushTimer fires: its func() { s.Flush() } starts in a
\* goroutine of its own
BufTimerFire ==
    /\ flushTimer = "armed"
    /\ flushTimer' = "expired"
    /\ fired' = fired \cup {timerGen}
    /\ UNCHANGED <<buffer, forwarded, nWrites, bufMutex, bufPc, timerGen,
                   lastTimerFlush>>

\* s.Flush() of the goroutine t that waits for the lock (the callback of
\* timer t, or FlushCaller): Lock, flush, Unlock
BufFlushBy(t) ==
    /\ bufMutex = "none"
    /\ t \in fired
    /\ \E k \in FlushChoices(buffer) :
          LET r == flush(buffer, flushTimer, forwarded, k) IN
          /\ buffer' = r.buffer
          /\ flushTimer' = r.flushTimer
          /\ forwarded' = r.forwarded
          /\ fired' = fired \ {t}
          /\ lastTimerFlush' = [t |-> t, sent |-> ForwardedByFlush(buffer, k),
                                ran |-> r.ran]
    /\ UNCHANGED <<nWrites, bufMutex, bufPc, timerGen>>

\* the callback of a timer that fired runs s.Flush()
BufTimerFlush == \E t \in fired : BufFlushBy(t)

\* The goroutine of the sink's owner, as a member of fired, when it has
\* called Flush() and waits for s.mutex.
FlushCaller == 0

\* func (s *BufferedSink) Flush() error is called by the owner of the sink
\* from a goroutine of its own: it reaches s.mutex.Lock()
BufFlushCall ==
    /\ FlushCaller \notin fired
    /\ fired' = fired \cup {FlushCaller}
    /\ UNCHANGED <<buffer, flushTimer, forwarded, nWrites, bufMutex, bufPc,
                   timerGen, lastTimerFlush>>

(***************************************************************************)
(* Properties of BufferedSink's lock and timers (checked under SpecBufConc)*)
(***************************************************************************)
\* C16 (no lock while arming): when BufferedSink.Write is about to arm the
\* delayed flush task it does not hold the sink's lock.
C16_ArmOutsideLock == bufPc = "arm" => bufMutex # "writer"

\* C18 (every write postpones the idle flush): a flush run by a timer callback
\* hands the wrapped sink no record written after that timer was armed, so the
\* callback of a timer superseded by a later Write does not flush the queue.
C18_SupersededNeverFlushes ==
    lastTimerFlush.ran =>
        \A i \in 1..Len(lastTimerFlush.sent) :
            lastTimerFlush.sent[i] <= lastTimerFlush.t

\* The goroutines that can wait in s.Flush(): the callbacks of the timers the
\* Writes armed, and the owner's Flush call.
FlushWaiters == {FlushCaller} \cup 1..MaxBufConcWrites

\* C31 (deadlock freedom): every BufferedSink.Write that has started returns,
\* and every Flush, called by a timer callback or by the owner, gets the lock
\* and completes, in every interleaving of a timer firing with the Write that
\* armed it or with a later Write (the wrapped sink's Write always returns).
C31_OperationsComplete ==
    /\ (bufPc # "idle") ~> (bufPc = "idle")
    /\ \A t \in FlushWaiters : (t \in fired) ~> (t \notin fired)

\* The timer armed by a Write has fired while that Write still holds the
\* lock, with the owner's Flush call waiting as well.
C31_Witness ==
    /\ bufPc \in {"check", "unlock"}
    /\ bufMutex = "writer"
    /\ timerGen = nWrites
    /\ timerGen \in fired
    /\ FlushCaller \in fired

(***************************************************************************)
(* RotatingFileSink over a directory holding <base>, <base>.1, <base>.2 .. *)
(***************************************************************************)
FileIdx == 0..MaxMaxFiles

\* The serialized lengths (newline included) of the lines written.
LineLens == {1, 2}

NoFile == [ex |-> FALSE, data |-> <<>>]

EmptyFile == [ex |-> TRUE, data |-> <<>>]

\* What one Write call put into a file: n bytes of the line of write w, whose
\* serialized length (newline included) is len; n < len for a short write.
Chunk(w, n, len) == [w |-> w, n |-> n, len |-> len]

RECURSIVE SumBytes(_)
SumBytes(data) ==
    IF data = <<>> THEN 0 ELSE Head(data).n + SumBytes(Tail(data))

\* stat.Size()
FileSize(f) == SumBytes(f.data)

\* A fault injected into one call: the step named by at fails (i: the index of
\* the rename, or the number of bytes a failing write still put out).
Faults(len) ==
    {[at |-> a, i |-> 0] :
        a \in {"none", "marshal", "close", "remove", "renameBase",
               "mkdir", "open", "stat", "sync"}}
    \cup {[at |-> "rename", i |-> i] : i \in 1..(MaxMaxFiles - 1)}
    \cup {[at |-> "write", i |-> n] : n \in 0..(len - 1)}

NoRotOp == [op |-> "none", ret |-> "nil", w |-> 0, len |-> 0, marshalled |-> FALSE,
            rotated |-> FALSE, rotOk |-> FALSE, wrote |-> 0, preBase |-> NoFile,
            preSize |-> 0, crossing |-> FALSE, faultFree |-> FALSE,
            failedStep |-> "none"]

\* func (s *RotatingFileSink) openCurrentFile() error, on directory d
openCurrentFile(d, cf, size, f) ==
    IF f.at \in {"mkdir", "open"}
       THEN [disk |-> d, currentFile |-> cf, currentSize |-> size, ok |-> FALSE]
       ELSE LET d1 == IF d[0].ex THEN d ELSE [d EXCEPT ![0] = EmptyFile] IN
            IF f.at = "stat"
               THEN [disk |-> d1, currentFile |-> cf, currentSize |-> size,
                     ok |-> FALSE]
               ELSE [disk |-> d1, currentFile |-> "open",
                     currentSize |-> FileSize(d1[0]), ok |-> TRUE]

\* The index whose successor path is removed before the shift: the loop removes
\* newPath = <base>.(i+1) when i == s.maxFiles-1.
RemoveAtIndex(i) == i = maxFiles - 1

\* for i := s.maxFiles - 1; i > 0; i-- { ... }, from iteration i on
RECURSIVE ShiftFiles(_, _, _)
ShiftFiles(d, i, f) ==
    IF i < 1
       THEN [disk |-> d, ok |-> TRUE]
       ELSE IF RemoveAtIndex(i) /\ f.at = "remove"
               THEN [disk |-> d, ok |-> FALSE]
               ELSE LET d1 == IF RemoveAtIndex(i)
                                 THEN [d EXCEPT ![i + 1] = NoFile]
                                 ELSE d
                    IN  IF d1[i].ex
                           THEN IF f.at = "rename" /\ f.i = i
                                   THEN [disk |-> d1, ok |-> FALSE]
                                   ELSE ShiftFiles([d1 EXCEPT ![i + 1] = d1[i],
                                                               ![i] = NoFile],
                                                   i - 1, f)
                           ELSE ShiftFiles(d1, i - 1, f)

\* Move current file to .1: os.Rename(s.basePath, s.basePath+".1")
MoveBaseDropped(d) == [d EXCEPT ![0] = NoFile]

MoveBase(d) == [d EXCEPT ![1] = d[0], ![0] = NoFile]

\* rotate() that goes on to reopen the base file when the rename of the base
\* file failed, instead of returning the failure.
rotateIgnoringRename(d, cf, size, f) ==
    IF cf # "nil" /\ (cf = "closed" \/ f.at = "close")
       THEN [disk |-> d, currentFile |-> "closed", currentSize |-> size, ok |-> FALSE]
       ELSE LET cf1 == IF cf = "nil" THEN cf ELSE "closed"
                s == ShiftFiles(d, maxFiles - 1, f)
            IN  IF ~s.ok
                   THEN [disk |-> s.disk, currentFile |-> cf1,
                         currentSize |-> size, ok |-> FALSE]
                   ELSE LET d2 == IF s.disk[0].ex /\ f.at # "renameBase"
                                     THEN MoveBase(s.disk)
                                     ELSE s.disk
                        IN  openCurrentFile(d2, cf1, size, f)

\* func (s *RotatingFileSink) rotate() error
rotate(d, cf, size, f) ==
    IF cf # "nil" /\ (cf = "closed" \/ f.at = "close")
       THEN \* Close fails (always on a handle that is closed already)
            [disk |-> d, currentFile |-> "closed", currentSize |-> size, ok |-> FALSE]
       ELSE LET cf1 == IF cf = "nil" THEN cf ELSE "closed"
                s == ShiftFiles(d, maxFiles - 1, f)
            IN  IF ~s.ok
                   THEN [disk |-> s.disk, currentFile |-> cf1,
                         currentSize |-> size, ok |-> FALSE]
                   ELSE IF s.disk[0].ex /\ f.at = "renameBase"
                           THEN [disk |-> s.disk, currentFile |-> cf1,
                                 currentSize |-> size, ok |-> FALSE]
                           ELSE LET d2 == IF s.disk[0].ex THEN MoveBase(s.disk)
                                                          ELSE s.disk
                                IN  openCurrentFile(d2, cf1, size, f)

\* if s.currentSize+int64(len(logLine)) > s.maxSize
RotationNeededInclusive(size, len) == size + len >= maxSize

RotationNeeded(size, len) == size + len > maxSize

\* s.currentSize += int64(len(logLine)), after a successful currentFile.Write
SizeAfterWrite(size, len) == size + len

\* The part of RotatingFileSink.Write that follows the rotation check: the
\* line is written to the handle the rotation (if any) left in s.currentFile.
WriteLine(d, cf, size, w, len, f) ==
    IF cf # "open"
       THEN [disk |-> d, currentSize |-> size, wrote |-> 0, ret |-> "err"]
       ELSE IF f.at = "write"
               THEN [disk |-> IF f.i = 0 THEN d
                              ELSE [d EXCEPT ![0].data = Append(@, Chunk(w, f.i, len))],
                     currentSize |-> size, wrote |-> f.i, ret |-> "err"]
               ELSE [disk |-> [d EXCEPT ![0].data = Append(@, Chunk(w, len, len))],
                     currentSize |-> SizeAfterWrite(size, len), wrote |-> len,
                     ret |-> IF f.at = "sync" THEN "err" ELSE "nil"]

\* The step of rotate() that returned the error of a Write whose rotation
\* failed although s.currentFile.Close() went through: the os.Remove or an
\* os.Rename of the shift, the os.Rename of the base file, or a call of
\* openCurrentFile(); "none" for every other Write.
FailedStep(cf, need, ok, f) ==
    IF need /\ ~ok /\ cf = "open" /\ f.at # "close" THEN f.at ELSE "none"

\* The base file a new sink may find: absent or empty (pre = 0), or holding
\* pre bytes that an earlier run of the program wrote (a line of write 0).
ExistingBase(pre) ==
    IF pre = 0 THEN EmptyFile
    ELSE [ex |-> TRUE, data |-> <<Chunk(0, pre, pre)>>]

\* NewRotatingFileSink(basePath, maxSize, maxFiles) succeeded
RotInit ==
    /\ maxSize \in 1..MaxMaxSize
    /\ maxFiles \in 1..MaxMaxFiles
    /\ \E pre \in {0} \cup LineLens :
          /\ disk = [i \in FileIdx |-> IF i = 0 THEN ExistingBase(pre) ELSE NoFile]
          /\ currentSize = pre
    /\ currentFile = "open"
    /\ nLines = 0
    /\ cumSize = 0
    /\ clean = TRUE
    /\ rotLast = NoRotOp

RotRest ==
    /\ maxSize = 1
    /\ maxFiles = 1
    /\ disk = [i \in FileIdx |-> IF i = 0 THEN EmptyFile ELSE NoFile]
    /\ currentFile = "open"
    /\ currentSize = 0
    /\ nLines = 0
    /\ cumSize = 0
    /\ clean = TRUE
    /\ rotLast = NoRotOp

\* func (s *RotatingFileSink) Write(msg Message) error
RotatingWrite ==
    /\ currentFile # "nil"
    /\ nLines < MaxLines
    /\ \E len \in LineLens : \E f \in Faults(len) :
        LET w == nLines + 1
            base == [op |-> "Write", ret |-> "err", w |-> w, len |-> len,
                     marshalled |-> FALSE, rotated |-> FALSE, rotOk |-> FALSE,
                     wrote |-> 0, preBase |-> disk[0], preSize |-> currentSize,
                     crossing |-> FALSE, faultFree |-> f.at = "none",
                     failedStep |-> "none"]
        IN
        /\ nLines' = w
        /\ IF f.at = "marshal"
              THEN /\ rotLast' = base
                   /\ clean' = FALSE
                   /\ UNCHANGED <<disk, currentFile, currentSize, cumSize>>
              ELSE LET need == RotationNeeded(currentSize, len)
                       r == IF need
                               THEN rotate(disk, currentFile, currentSize, f)
                               ELSE [disk |-> disk, currentFile |-> currentFile,
                                     currentSize |-> currentSize, ok |-> TRUE]
                       x == IF r.ok
                               THEN WriteLine(r.disk, r.currentFile, r.currentSize,
                                              w, len, f)
                               ELSE [disk |-> r.disk, currentSize |-> r.currentSize,
                                     wrote |-> 0, ret |-> "err"]
                   IN /\ disk' = x.disk
                      /\ currentFile' = r.currentFile
                      /\ currentSize' = x.currentSize
                      /\ cumSize' = IF cumSize > maxSize THEN cumSize ELSE cumSize + len
                      /\ rotLast' = [base EXCEPT
                                       !.ret = x.ret, !.marshalled = TRUE,
                                       !.rotated = need, !.rotOk = need /\ r.ok,
                                       !.wrote = x.wrote,
                                       !.failedStep =
                                           FailedStep(currentFile, need, r.ok, f),
                                       !.crossing = /\ clean /\ x.ret = "nil"
                                                    /\ cumSize <= maxSize
                                                    /\ cumSize + len > maxSize]
                      /\ clean' = (clean /\ x.ret = "nil")
    /\ UNCHANGED <<maxSize, maxFiles>>

\* func (s *RotatingFileSink) Close() error
RotatingClose ==
    /\ currentFile = "open"
    /\ currentFile' = "closed"
    /\ rotLast' = [NoRotOp EXCEPT !.op = "Close"]
    /\ UNCHANGED <<disk, currentSize, maxSize, maxFiles, nLines, cumSize, clean>>

\* NewRotatingFileSink again on the same base path (the process restarts);
\* when openCurrentFile fails the constructor returns no sink.
NewRotatingFileSink ==
    /\ currentFile # "open"
    /\ \E f \in {[at |-> a, i |-> 0] : a \in {"none", "mkdir", "open", "stat"}} :
        LET r == openCurrentFile(disk, "nil", 0, f) IN
        /\ disk' = r.disk
        /\ currentFile' = r.currentFile
        /\ currentSize' = r.currentSize
        /\ rotLast' = [NoRotOp EXCEPT !.op = "New",
                                      !.ret = IF r.ok THEN "nil" ELSE "err"]
    /\ cumSize' = 0
    /\ clean' = TRUE
    /\ UNCHANGED <<maxSize, maxFiles, nLines>>

(***************************************************************************)
(* Properties of RotatingFileSink (checked under SpecRot)                  *)
(***************************************************************************)
\* The line of the last Write as it is in a file when written in full.
LastLine == Chunk(rotLast.w, rotLast.len, rotLast.len)

\* What the last Write put into the file (a short write puts less than the line).
LastWritten == Chunk(rotLast.w, rotLast.wrote, rotLast.len)

HoldsLineOf(f, w) == \E n \in 1..Len(f.data) : f.data[n].w = w

\* C7 (eviction bound): with maxFiles = M the directory holds at most M log
\* files, <base> and <base>.1 .. <base>.(M-1); <base>.M or higher never exists.
C7_EvictionBound ==
    /\ \A i \in FileIdx : disk[i].ex => i <= maxFiles - 1
    /\ Cardinality({i \in FileIdx : disk[i].ex}) <= maxFiles

\* C8 as stated (rotation invariant): when the cumulative serialized size of the
\* writes to the sink (all of which returned nil) first exceeds maxSize on write
\* k, after write k <base>.1 holds what <base> held before write k and <base>
\* holds the line of write k only.
C8_Original ==
    (rotLast.op = "Write" /\ rotLast.crossing) =>
        /\ disk[1] = rotLast.preBase
        /\ disk[0] = [ex |-> TRUE, data |-> <<LastLine>>]

\* C8 as amended: when the size of the base file (currentSize: the bytes it held
\* when the sink opened it plus the lines written since) plus the serialized
\* line exceeds maxSize on write k and write k returns nil, after write k
\* <base>.1 holds what <base> held before write k and <base> holds the line of
\* write k only.
C8_RotationInvariant ==
    (/\ rotLast.op = "Write"
     /\ rotLast.ret = "nil"
     /\ rotLast.preSize + rotLast.len > maxSize) =>
        /\ disk[1] = rotLast.preBase
        /\ disk[0] = [ex |-> TRUE, data |-> <<LastLine>>]

\* A successful write rotated a base file of two lines away to <base>.1.
C8_Witness ==
    /\ rotLast.op = "Write"
    /\ rotLast.ret = "nil"
    /\ rotLast.rotated
    /\ Len(rotLast.preBase.data) >= 2
    /\ disk[1] = rotLast.preBase
    /\ disk[0].data = <<LastLine>>

\* C9 (rotation trigger): a Write that serialized its line rotates exactly when
\* currentSize plus the line length exceeds maxSize; when it rotates, whatever
\* it writes of the line is the only content of the base file the completed
\* rotation opened, and is in no rotated file; when it does not rotate, the
\* line is appended to the base file as it was.
C9_RotationTrigger ==
    (rotLast.op = "Write" /\ rotLast.marshalled) =>
        /\ rotLast.rotated <=> rotLast.preSize + rotLast.len > maxSize
        /\ (rotLast.rotated /\ rotLast.wrote > 0) =>
              /\ rotLast.rotOk
              /\ disk[0] = [ex |-> TRUE, data |-> <<LastWritten>>]
              /\ \A i \in FileIdx \ {0} : ~HoldsLineOf(disk[i], rotLast.w)
        /\ (~rotLast.rotated /\ rotLast.wrote > 0) =>
              disk[0] = [ex |-> TRUE,
                         data |-> Append(rotLast.preBase.data, LastWritten)]
        /\ rotLast.wrote = 0 =>
              \A i \in FileIdx : ~HoldsLineOf(disk[i], rotLast.w)

\* A write that takes a non-empty base file one byte past maxSize rotated
\* first and then wrote its line to the new base file.
C9_Witness ==
    /\ rotLast.op = "Write"
    /\ rotLast.rotated
    /\ rotLast.rotOk
    /\ rotLast.ret = "nil"
    /\ rotLast.preSize + rotLast.len = maxSize + 1
    /\ rotLast.preBase.data # <<>>
    /\ disk[0].data = <<LastLine>>

\* C10 (size bookkeeping): whenever the sink holds an open base file,
\* currentSize is that file's byte length.
C10_SizeBookkeeping ==
    currentFile = "open" => currentSize = FileSize(disk[0])

\* C11 (rotation failure surfaced): a Write whose rotation failed at a close,
\* remove, rename or reopen step returns an error and writes nothing; a Write
\* that rotated and returned nil completed the rotation (the old base file is
\* <base>.1, the reopened base file holds the line only); and no Write returns
\* nil without its whole line being the last content of the base file.
C11_RotationFailureSurfaced ==
    rotLast.op = "Write" =>
        /\ (rotLast.rotated /\ ~rotLast.rotOk) =>
              /\ rotLast.ret = "err"
              /\ rotLast.wrote = 0
              /\ \A i \in FileIdx : ~HoldsLineOf(disk[i], rotLast.w)
        /\ (rotLast.rotated /\ rotLast.ret = "nil") =>
              /\ rotLast.preBase.ex => disk[1] = rotLast.preBase
              /\ disk[0] = [ex |-> TRUE, data |-> <<LastLine>>]
        /\ rotLast.ret = "nil" =>
              /\ disk[0].ex
              /\ disk[0].data # <<>>
              /\ disk[0].data[Len(disk[0].data)] = LastLine

\* A Write triggered a rotation that shifted <base>.1 to <base>.2 and then
\* failed before the base file was reopened: the Write returned an error.
C11_Witness ==
    /\ rotLast.op = "Write"
    /\ rotLast.rotated
    /\ ~rotLast.rotOk
    /\ rotLast.ret = "err"
    /\ disk[2].ex
    /\ ~disk[1].ex
    /\ disk[0] = rotLast.preBase
    /\ rotLast.preBase.data # <<>>

\* C32 (recovery from a failed rotation): when a Write has returned an error
\* because a rename, delete or reopen step of its rotation failed, the next
\* Write on the same sink during which every filesystem operation succeeds
\* returns nil.
C32_RecoversAfterFailedRotation ==
    [][(/\ rotLast.op = "Write"
        /\ rotLast.failedStep # "none"
        /\ rotLast'.op = "Write"
        /\ rotLast'.w # rotLast.w
        /\ rotLast'.faultFree) => rotLast'.ret = "nil"]_vars

\* C33 (size bound): after a Write that returned nil the base file holds at
\* most maxSize bytes, whatever the length of the line, and the rotation of
\* that Write, if any, did not move an empty base file to <base>.1.
C33_SizeBound ==
    (rotLast.op = "Write" /\ rotLast.ret = "nil") =>
        /\ currentSize <= maxSize
        /\ rotLast.rotated => rotLast.preBase.data # <<>>

(***************************************************************************)
(* RotatingFileSink, step by step, called by concurrent goroutines         *)
(***************************************************************************)
Goroutines == {"g1", "g2"}

NoLine == [w |-> 0, len |-> 0]

RotConcRest ==
    /\ rotMutex = "none"
    /\ rotPc = [g \in Goroutines |-> "idle"]
    /\ rotLine = [g \in Goroutines |-> NoLine]
    /\ rotRotated = [g \in Goroutines |-> FALSE]

Fault(a) == [at |-> a, i |-> 0]

\* s.mutex.Lock() returns when no goroutine holds the mutex
MutexFreeAlways == TRUE

MutexFree == rotMutex = "none"

RotGoto(g, to) == rotPc' = [rotPc EXCEPT ![g] = to]

\* Write: s.mutex.Lock(); json.Marshal(msg); the rotation check
RotWriteEnter(g) ==
    /\ rotPc[g] = "idle"
    /\ currentFile # "nil"
    /\ nLines < MaxConcLines
    /\ MutexFree
    /\ rotMutex' = g
    /\ nLines' = nLines + 1
    /\ \E len \in LineLens : \E marshalOk \in BOOLEAN :
          IF ~marshalOk
             THEN /\ RotGoto(g, "unlock")
                  /\ UNCHANGED rotLine
             ELSE /\ rotLine' = [rotLine EXCEPT ![g] = [w |-> nLines + 1, len |-> len]]
                  /\ RotGoto(g, IF RotationNeeded(currentSize, len)
                                   THEN "close" ELSE "write")
    /\ UNCHANGED <<disk, currentFile, currentSize, rotRotated>>

\* rotate: s.currentFile.Close()
RotCloseOld(g) ==
    /\ rotPc[g] = "close"
    /\ \E f \in {Fault("none"), Fault("close")} :
          IF currentFile # "nil" /\ (currentFile = "closed" \/ f.at = "close")
             THEN /\ currentFile' = "closed"
                  /\ RotGoto(g, "unlock")
             ELSE /\ currentFile' = IF currentFile = "nil" THEN "nil" ELSE "closed"
                  /\ RotGoto(g, "shift")
    /\ UNCHANGED <<disk, currentSize, nLines, rotMutex, rotLine, rotRotated>>

\* rotate: the loop that removes the oldest file and renames the others
RotShift(g) ==
    /\ rotPc[g] = "shift"
    /\ \E f \in {Fault("none"), Fault("remove")}
                 \cup {[at |-> "rename", i |-> i] : i \in 1..(MaxMaxFiles - 1)} :
          LET s == ShiftFiles(disk, maxFiles - 1, f) IN
          /\ disk' = s.disk
          /\ RotGoto(g, IF s.ok THEN "renameBase" ELSE "unlock")
    /\ UNCHANGED <<currentFile, currentSize, nLines, rotMutex, rotLine, rotRotated>>

\* rotate: os.Rename(s.basePath, s.basePath+".1") when the base file exists
RotRenameBase(g) ==
    /\ rotPc[g] = "renameBase"
    /\ \E f \in {Fault("none"), Fault("renameBase")} :
          IF disk[0].ex /\ f.at = "renameBase"
             THEN /\ RotGoto(g, "unlock")
                  /\ UNCHANGED disk
             ELSE /\ disk' = IF disk[0].ex THEN MoveBase(disk) ELSE disk
                  /\ RotGoto(g, "reopen")
    /\ UNCHANGED <<currentFile, currentSize, nLines, rotMutex, rotLine, rotRotated>>

\* rotate: return s.openCurrentFile()
RotReopen(g) ==
    /\ rotPc[g] = "reopen"
    /\ \E f \in {Fault("none"), Fault("mkdir"), Fault("open"), Fault("stat")} :
          LET r == openCurrentFile(disk, currentFile, currentSize, f) IN
          /\ disk' = r.disk
          /\ currentFile' = r.currentFile
          /\ currentSize' = r.currentSize
          /\ rotRotated' = [rotRotated EXCEPT ![g] = r.ok]
          /\ RotGoto(g, IF r.ok THEN "write" ELSE "unlock")
    /\ UNCHANGED <<nLines, rotMutex, rotLine>>

\* Write: s.currentFile.Write(logLine); s.currentSize += ...; Sync()
RotWriteLine(g) ==
    /\ rotPc[g] = "write"
    /\ \E f \in {Fault("none"), Fault("sync")}
                 \cup {[at |-> "write", i |-> n] : n \in 0..(rotLine[g].len - 1)} :
          LET x == WriteLine(disk, currentFile, currentSize, rotLine[g].w,
                             rotLine[g].len, f) IN
          /\ disk' = x.disk
          /\ currentSize' = x.currentSize
    /\ RotGoto(g, "unlock")
    /\ UNCHANGED <<currentFile, nLines, rotMutex, rotLine, rotRotated>>

\* Close: s.mutex.Lock(); s.currentFile.Close()
RotCloseEnter(g) ==
    /\ rotPc[g] = "idle"
    /\ currentFile # "nil"
    /\ MutexFree
    /\ rotMutex' = g
    /\ RotGoto(g, "closing")
    /\ UNCHANGED <<disk, currentFile, currentSize, nLines, rotLine, rotRotated>>

RotCloseFile(g) ==
    /\ rotPc[g] = "closing"
    /\ currentFile' = "closed"
    /\ RotGoto(g, "unlock")
    /\ UNCHANGED <<disk, currentSize, nLines, rotMutex, rotLine, rotRotated>>

\* defer s.mutex.Unlock(): Write or Close returns
RotUnlock(g) ==
    /\ rotPc[g] = "unlock"
    /\ rotMutex' = "none"
    /\ rotLine' = [rotLine EXCEPT ![g] = NoLine]
    /\ rotRotated' = [rotRotated EXCEPT ![g] = FALSE]
    /\ RotGoto(g, "idle")
    /\ UNCHANGED <<disk, currentFile, currentSize, nLines>>

(***************************************************************************)
(* Properties of concurrent RotatingFileSink calls (checked under          *)
(* SpecRotConc)                                                            *)
(***************************************************************************)
\* Goroutine g is between s.mutex.Lock() and the deferred Unlock().
InRotCall(g) == rotPc[g] # "idle"

\* Goroutine g's Write has closed the old file and not yet written its line.
MidRotation(g) == rotPc[g] \in {"shift", "renameBase", "reopen"}
                  \/ (rotPc[g] = "write" /\ rotRotated[g])

\* C15 (rotation atomic with respect to other writers): the steps of a Write
\* run under the sink's lock, so while one goroutine is between the close of
\* the old file and the write of its line no other goroutine is inside Write
\* or Close; the Write that completed a rotation writes its line to the open,
\* still empty base file it reopened; and every line in the directory was
\* written while the file was open as the base file.
C15_RotationAtomic ==
    /\ \A g \in Goroutines : InRotCall(g) => rotMutex = g
    /\ \A g \in Goroutines : MidRotation(g) =>
          \A h \in Goroutines \ {g} : ~InRotCall(h)
    /\ \A g \in Goroutines : (rotPc[g] = "write" /\ rotRotated[g]) =>
          /\ currentFile = "open"
          /\ disk[0] = EmptyFile
          /\ currentSize = 0
    /\ \A g \in Goroutines : MidRotation(g) =>
          \A i \in FileIdx : ~HoldsLineOf(disk[i], rotLine[g].w)

\* One goroutine has rotated a non-empty base file away and is about to write
\* its line while the other goroutine waits to enter Write or Close.
C15_Witness ==
    /\ rotPc["g1"] = "write"
    /\ rotRotated["g1"]
    /\ rotPc["g2"] = "idle"
    /\ rotMutex = "g1"
    /\ disk[1].ex
    /\ HoldsLineOf(disk[1], 1)
    /\ rotLine["g1"].w = 2

(***************************************************************************)
(* FilterSink                                                              *)
(***************************************************************************)
\* Message.Level is a string: the three levels of the package or any other.
FilLevels == Levels \cup {"DEBUG"}

\* The record of the n-th FilterSink.Write, of level lv.
FilMessage(n, lv) == [level |-> lv, id |-> n]

NoFilOp == [op |-> "none", msg |-> FilMessage(0, Info), ret |-> "nil",
            touched |-> FALSE]

\* NewFilterSink(sink, levels...): levelMap[level] = true for each level given
NewFilterSink ==
    /\ levels \in SUBSET FilLevels
    /\ filWritten = <<>>
    /\ filReceived = <<>>
    /\ filLast = NoFilOp

FilRest ==
    /\ levels = {}
    /\ filWritten = <<>>
    /\ filReceived = <<>>
    /\ filLast = NoFilOp

\* if s.levels[msg.Level]
LevelAllowedInverted(m) == m.level \notin levels

LevelAllowed(m) == m.level \in levels

\* func (s *FilterSink) Write(msg Message) error; the wrapped sink's Write
\* returns nil or an error.
FilterWrite ==
    /\ Len(filWritten) < MaxFilWrites
    /\ \E lv \in FilLevels : \E ok \in BOOLEAN :
        LET m == FilMessage(Len(filWritten) + 1, lv) IN
        /\ filWritten' = Append(filWritten, m)
        /\ IF LevelAllowed(m)
              THEN /\ filReceived' = Append(filReceived, m)
                   /\ filLast' = [op |-> "Write", msg |-> m,
                                  ret |-> IF ok THEN "nil" ELSE "err",
                                  touched |-> TRUE]
              ELSE /\ filReceived' = filReceived
                   /\ filLast' = [op |-> "Write", msg |-> m, ret |-> "nil",
                                  touched |-> FALSE]
    /\ UNCHANGED levels

(***************************************************************************)
(* Properties of FilterSink (checked under SpecFil)                        *)
(***************************************************************************)
InAllowSet(m) == m.level \in levels

\* C12 (filter invariant): the wrapped sink has received exactly the records
\* written whose level is in the allow-set, each unmodified, once and in order;
\* a Write of a record whose level is not in the allow-set returns nil and
\* does not call the wrapped sink.
C12_FilterInvariant ==
    /\ filReceived = SelectSeq(filWritten, InAllowSet)
    /\ filLast.op = "Write" =>
          /\ filLast.touched <=> filLast.msg.level \in levels
          /\ ~filLast.touched => filLast.ret = "nil"

\* Three records were written: an allowed one reached the wrapped sink, one
\* of another level did not, and the last, not allowed, returned nil.
C12_Witness ==
    /\ Len(filWritten) = 3
    /\ Len(filReceived) = 1
    /\ levels # {}
    /\ filLast.op = "Write"
    /\ ~filLast.touched
    /\ filLast.ret = "nil"

(***************************************************************************)
(* WriterSink written to by concurrent goroutines.  WriterSink has no lock *)
(* and hands each line to s.Writer.Write; the Writer is an in-memory       *)
(* buffer (a bytes.Buffer), which appends by loading its end offset and    *)
(* then storing the bytes there.                                           *)
(***************************************************************************)
\* The serialized line of the n-th Write of goroutine g.
WriterLine(g, n) == [by |-> g, n |-> n]

WriInit ==
    /\ wriPc = [g \in Goroutines |-> "idle"]
    /\ wriOff = [g \in Goroutines |-> 0]
    /\ wriBuf = <<>>
    /\ wriDone = [g \in Goroutines |-> 0]

\* buf with line stored at offset off (the buffer grows to hold it)
StoreAt(buf, off, line) ==
    [i \in 1..(IF Len(buf) > off THEN Len(buf) ELSE off + 1) |->
        IF i = off + 1 THEN line ELSE buf[i]]

\* WriterSink.Write, first part: json.Marshal(msg), then s.Writer.Write begins
\* (no lock is taken) and loads the end of the buffer
WriterLoad(g) ==
    /\ wriPc[g] = "idle"
    /\ wriDone[g] < MaxWriterWrites
    /\ wriOff' = [wriOff EXCEPT ![g] = Len(wriBuf)]
    /\ wriPc' = [wriPc EXCEPT ![g] = "store"]
    /\ UNCHANGED <<wriBuf, wriDone>>

\* WriterSink.Write, second part: s.Writer.Write stores the line at the
\* offset it loaded and returns nil
WriterStore(g) ==
    /\ wriPc[g] = "store"
    /\ wriBuf' = StoreAt(wriBuf, wriOff[g], WriterLine(g, wriDone[g] + 1))
    /\ wriDone' = [wriDone EXCEPT ![g] = @ + 1]
    /\ wriPc' = [wriPc EXCEPT ![g] = "idle"]
    /\ UNCHANGED wriOff

(***************************************************************************)
(* Properties of concurrent sink writes (checked under SpecWri)            *)
(***************************************************************************)
LinesIn(buf, line) == Cardinality({i \in 1..Len(buf) : buf[i] = line})

\* C14 (sinks safe for concurrent Write): every line whose Write returned nil
\* is in the destination exactly once.
C14_ConcurrentWritesIntact ==
    \A g \in Goroutines : \A n \in 1..wriDone[g] :
        LinesIn(wriBuf, WriterLine(g, n)) = 1

(***************************************************************************)
(* Context values: WithValue and GetValue.  A context is a node that binds *)
(* contextValueKey to a ContextValue map (ref: its index in ctxMaps, 0 for *)
(* a context without the binding); maps are objects, so that two contexts  *)
(* can hold the same map.  WithValues is a loop of WithValue calls, one    *)
(* per entry of its argument, and is covered by sequences of WithValue.    *)
(***************************************************************************)
CtxKeys == {"a", "b", "c"}

CtxVals == {"x", "y"}

\* What reading a missing key of a Go map of any yields, and what
\* ctx.Value yields for an unbound key.
Nil == "nil"

EmptyMap == [k \in CtxKeys |-> Nil]

\* context.Background()
Background == [parent |-> 0, ref |-> 0, key |-> Nil, value |-> Nil, born |-> EmptyMap]

NoCtxCall == [pc |-> "idle", ctx |-> 0, key |-> Nil, value |-> Nil, ref |-> 0]

\* No record has been built; a record holds the context it was logged with,
\* the ContextValue map in its Context field (ref 0: the ContextValue{} made
\* by printWithLevel) and what that map held when the record was built.
NoRecord == [ctx |-> 0, ref |-> 0, snapshot |-> EmptyMap]

CtxInit ==
    /\ ctxs = <<Background>>
    /\ ctxMaps = <<>>
    /\ ctxCall = [g \in Goroutines |-> NoCtxCall]
    /\ ctxRecord = NoRecord

\* func (l *logger) GetValue(ctx context.Context, key string) any
GetValue(c, k) ==
    IF ctxs[c].ref = 0 THEN Nil ELSE ctxMaps[ctxs[c].ref][k]

\* lo.Assign(currentValue): the entries of the new map, those of the map the
\* context holds (none for the literal ContextValue{key: value})
AssignNothing(cur) == EmptyMap

Assign(cur) == IF cur = 0 THEN EmptyMap ELSE ctxMaps[cur]

\* newValue := lo.Assign(currentValue): the map the derived context will
\* hold is a new map object
NewMapAliased(cur) == IF cur = 0 THEN Len(ctxMaps) + 1 ELSE cur

NewMap(cur) == Len(ctxMaps) + 1

\* WithValue: currentValue, ok := ctx.Value(contextValueKey).(ContextValue);
\* newValue := lo.Assign(currentValue), or the new map of the literal
\* ContextValue{key: value} when there is no current value
WithValueCopy(g) ==
    /\ ctxCall[g].pc = "idle"
    /\ Len(ctxs) + Cardinality({h \in Goroutines : ctxCall[h].pc # "idle"}) < MaxCtxs
    /\ \E c \in 1..Len(ctxs) : \E k \in CtxKeys : \E v \in CtxVals :
          LET cur == ctxs[c].ref
              r == NewMap(cur)
          IN  /\ ctxMaps' = IF r > Len(ctxMaps)
                               THEN Append(ctxMaps, Assign(cur))
                               ELSE ctxMaps
              /\ ctxCall' = [ctxCall EXCEPT ![g] =
                                [pc |-> "assign", ctx |-> c, key |-> k,
                                 value |-> v, ref |-> r]]
    /\ UNCHANGED ctxs

\* The map "newValue[key] = value" assigns to: the new map of the call.
AssignTargetCurrent(g) ==
    IF ctxs[ctxCall[g].ctx].ref = 0 THEN ctxCall[g].ref ELSE ctxs[ctxCall[g].ctx].ref

AssignTarget(g) == ctxCall[g].ref

\* WithValue: newValue[key] = value
WithValueAssign(g) ==
    /\ ctxCall[g].pc = "assign"
    /\ ctxMaps' = [ctxMaps EXCEPT ![AssignTarget(g)][ctxCall[g].key] = ctxCall[g].value]
    /\ ctxCall' = [ctxCall EXCEPT ![g].pc = "wrap"]
    /\ UNCHANGED ctxs

\* WithValue: return context.WithValue(ctx, contextValueKey, newValue)
WithValueReturn(g) ==
    /\ ctxCall[g].pc = "wrap"
    /\ ctxs' = Append(ctxs, [parent |-> ctxCall[g].ctx, ref |-> ctxCall[g].ref,
                             key |-> ctxCall[g].key, value |-> ctxCall[g].value,
                             born |-> ctxMaps[ctxCall[g].ref]])
    /\ ctxCall' = [ctxCall EXCEPT ![g] = NoCtxCall]
    /\ UNCHANGED ctxMaps

\* printWithLevel(ctx, ...): the record's Context is the ContextValue map the
\* context holds (the map itself, no copy), or ContextValue{} when it holds
\* none; the record is then handed to the sinks, which may keep it (a
\* BufferedSink appends the Message, with this map, to its queue).
LogWithContext ==
    /\ ctxRecord = NoRecord
    /\ \E c \in 1..Len(ctxs) :
          ctxRecord' = [ctx |-> c, ref |-> ctxs[c].ref,
                        snapshot |-> IF ctxs[c].ref = 0 THEN EmptyMap
                                     ELSE ctxMaps[ctxs[c].ref]]
    /\ UNCHANGED ctxVars

(***************************************************************************)
(* Properties of the context values (checked under SpecCtx and SpecCtxLog) *)
(***************************************************************************)
\* The contexts that WithValue returned.
Derived == 2..Len(ctxs)

\* What GetValue returned for each key of context c when c was made.
BornView(c) == ctxs[c].born

\* C19 (context isolation): for two contexts derived from the same context c0
\* by WithValue with different keys a and b, neither of which c0 bound when
\* it was made, GetValue(c1, b) and GetValue(c2, a) are nil, in whatever order
\* the two derivations ran and whatever else ran between their steps.
C19_ContextIsolation ==
    \A c1, c2 \in Derived :
        (/\ c1 # c2
         /\ ctxs[c1].parent = ctxs[c2].parent
         /\ ctxs[c1].key # ctxs[c2].key
         /\ BornView(ctxs[c1].parent)[ctxs[c1].key] = Nil
         /\ BornView(ctxs[c1].parent)[ctxs[c2].key] = Nil)
            => /\ GetValue(c1, ctxs[c2].key) = Nil
               /\ GetValue(c2, ctxs[c1].key) = Nil

\* Two contexts were derived with keys a and b from a context that holds a
\* ContextValue map binding neither, the second while the first derivation
\* was still in progress.
C19_Witness ==
    /\ Len(ctxs) = 4
    /\ ctxs[2].parent = 1
    /\ ctxs[2].key = "c"
    /\ ctxs[3].parent = 2
    /\ ctxs[4].parent = 2
    /\ ctxs[3].key = "a"
    /\ ctxs[4].key = "b"
    /\ ctxs[3].ref > ctxs[4].ref
    /\ GetValue(3, "b") = Nil
    /\ GetValue(4, "a") = Nil
    /\ GetValue(3, "c") = GetValue(2, "c")

\* C20 (attach is a copy-on-write overlay): in the context WithValue(ctx, k, v)
\* returned, GetValue(k) is v and GetValue of every other key is what it is in
\* ctx; GetValue on a context made earlier returns for every key what it
\* returned when that context was made; GetValue is nil for a key that was
\* attached nowhere on the chain from Background to the context.
C20_AttachOverlay ==
    /\ \A c \in Derived :
          /\ GetValue(c, ctxs[c].key) = ctxs[c].value
          /\ \A k \in CtxKeys \ {ctxs[c].key} :
                GetValue(c, k) = GetValue(ctxs[c].parent, k)
    /\ \A c \in 1..Len(ctxs) : \A k \in CtxKeys : GetValue(c, k) = BornView(c)[k]
    /\ \A k \in CtxKeys : GetValue(1, k) = Nil

\* A context overlays key a of its parent with another value: the parent
\* still reads the old value, the child the new one and the parent's other key.
C20_Witness ==
    \E c \in Derived :
        LET p == ctxs[c].parent IN
        /\ p \in Derived
        /\ ctxs[p].key = "b"
        /\ ctxs[ctxs[p].parent].key = "a"
        /\ ctxs[c].key = "a"
        /\ GetValue(p, "a") = "x"
        /\ GetValue(c, "a") = "y"
        /\ GetValue(c, "b") = GetValue(p, "b")
        /\ GetValue(c, "c") = Nil

\* The mapping the dispatched record carries now.
RecordContext ==
    IF ctxRecord.ref = 0 THEN EmptyMap ELSE ctxMaps[ctxRecord.ref]

RECURSIVE DescendsFrom(_, _)
DescendsFrom(c, a) ==
    IF c = a THEN TRUE
    ELSE IF c <= 1 THEN FALSE
    ELSE DescendsFrom(ctxs[c].parent, a)

\* C21 (record context is an immutable snapshot): the mapping a dispatched
\* record carries is the mapping its context bound when the log call built it,
\* whatever WithValue calls have run since on that context or its descendants.
C21_RecordSnapshot ==
    ctxRecord # NoRecord => RecordContext = ctxRecord.snapshot

\* After a record was built on a context binding key a, a context derived
\* from that context rebinds a to another value and a further one binds b.
C21_Witness ==
    /\ ctxRecord # NoRecord
    /\ ctxRecord.ref # 0
    /\ ctxRecord.snapshot["a"] = "x"
    /\ ctxRecord.snapshot["b"] = Nil
    /\ \E c, d \in Derived :
          /\ ctxs[c].parent = ctxRecord.ctx
          /\ ctxs[c].ref > ctxRecord.ref
          /\ GetValue(c, "a") = "y"
          /\ DescendsFrom(d, c)
          /\ GetValue(d, "b") = "x"
    /\ RecordContext["a"] = "x"

(***************************************************************************)
(* Sink registry, operation by operation                                   *)
(***************************************************************************)
\* Sink handles of the registry runs: three, so that two entries other than
\* the one removed have an order.
RegSinkIds == SinkIds \cup {"s3"}

RegRest == regHist = <<>>

\* NewLoggerWithSinks(sinks...), no log call made
RegInit ==
    /\ sinks \in SeqsUpTo(RegSinkIds, MaxSinks)
    /\ regHist = <<>>
    /\ beh = [s \in SinkIds |-> "ok"]
    /\ pc = "idle"
    /\ rangeSinks = <<>>
    /\ idx = 0
    /\ msg = Message(Info)
    /\ calls = <<>>
    /\ stderr = <<>>

\* The last two operations, with the registry before and after each.
Recorded(op, s) ==
    LET e == [op |-> op, sink |-> s, pre |-> sinks, post |-> sinks']
    IN  regHist' = IF regHist = <<>> THEN <<e>> ELSE <<regHist[Len(regHist)], e>>

RegAddSink(s) == AddSink(s) /\ Recorded("add", s)

RegRemoveSink(s) == RemoveSink(s) /\ Recorded("remove", s)

\* GetSinks(): return l.sinks
GetSinks == sinks

(***************************************************************************)
(* Properties of the sink registry (checked under SpecReg)                 *)
(***************************************************************************)
\* AddSink(s) directly followed by RemoveSink(s).
AddThenRemove ==
    /\ Len(regHist) = 2
    /\ regHist[1].op = "add"
    /\ regHist[2].op = "remove"
    /\ regHist[2].sink = regHist[1].sink

Holds(reg, s) == \E i \in 1..Len(reg) : reg[i] = s

\* C22 (AddSink then RemoveSink restores the length): after AddSink(s) followed
\* by RemoveSink(s) the registry is as long as it was before the AddSink,
\* whatever the registry held, an entry equal to s included.
C22_AddRemoveRestores ==
    AddThenRemove => Len(GetSinks) = Len(regHist[1].pre)

LastOp == regHist[Len(regHist)]

\* The positions of reg that hold an entry other than s, and the j-th of them.
OtherPositions(reg, s) == {i \in 1..Len(reg) : reg[i] # s}

NthOther(reg, s, j) ==
    CHOOSE i \in OtherPositions(reg, s) :
        Cardinality({k \in OtherPositions(reg, s) : k <= i}) = j

\* C27 (RemoveSink and AddSink frame): after RemoveSink(s) no entry equal to s
\* remains and the other entries are all kept, in their original relative
\* order; RemoveSink of a sink the registry does not hold changes nothing;
\* AddSink(s) puts s last and leaves every existing entry where it was.
C27_RegistryFrame ==
    regHist # <<>> =>
        LET s == LastOp.sink
            pre == LastOp.pre
            post == LastOp.post
        IN  /\ post = GetSinks
            /\ LastOp.op = "remove" =>
                  /\ ~Holds(post, s)
                  /\ Len(post) = Cardinality(OtherPositions(pre, s))
                  /\ \A j \in 1..Len(post) : post[j] = pre[NthOther(pre, s, j)]
                  /\ ~Holds(pre, s) => post = pre
            /\ LastOp.op = "add" =>
                  /\ Len(post) = Len(pre) + 1
                  /\ post[Len(post)] = s
                  /\ \A i \in 1..Len(pre) : post[i] = pre[i]

\* A sink registered between two other, different sinks was removed, after an
\* AddSink to a registry that already held sinks.
C27_Witness ==
    /\ Len(regHist) = 2
    /\ regHist[1].op = "add"
    /\ Len(regHist[1].pre) = 2
    /\ regHist[1].pre[1] # regHist[1].sink
    /\ LastOp.op = "remove"
    /\ Len(LastOp.pre) = 3
    /\ LastOp.pre[2] = LastOp.sink
    /\ LastOp.pre[1] # LastOp.sink
    /\ LastOp.pre[3] # LastOp.sink
    /\ LastOp.pre[1] # LastOp.pre[3]
    /\ GetSinks = <<LastOp.pre[1], LastOp.pre[3]>>

(***************************************************************************)
(* retry.With                                                              *)
(***************************************************************************)
\* What Action can return: a value with a nil error, or a value with an error.
RetryValues == {"v1", "v2"}
RetryErrors == {"e1", "e2"}

\* The zero value of T.
ZeroValue == "zero"

NoOut == [done |-> FALSE, res |-> Nil, err |-> Nil]

\* Config[T]: Action and the two callbacks may each be nil.
RetryConfigs ==
    [Action : BOOLEAN, MaxRetries : (0 - 1)..MaxMaxRetries,
     AttemptErrorCallback : BOOLEAN, NoMoreAttemptsCallback : BOOLEAN]

RetryRest ==
    /\ retCfg = [Action |-> FALSE, MaxRetries |-> 0,
                 AttemptErrorCallback |-> FALSE, NoMoreAttemptsCallback |-> FALSE]
    /\ retPc = "rest"
    /\ attempt = 0
    /\ res = ZeroValue
    /\ err = Nil
    /\ retLog = <<>>
    /\ retOut = NoOut

\* With(in) is called: any Config
RetryInit ==
    /\ retCfg \in RetryConfigs
    /\ retPc = "entry"
    /\ attempt = 0
    /\ res = ZeroValue
    /\ err = Nil
    /\ retLog = <<>>
    /\ retOut = NoOut

Return(r, e) == retOut' = [done |-> TRUE, res |-> r, err |-> e]

\* if in.Action == nil { return nil, fmt.Errorf("action is nil") }
\* var res T; var err error; attempt := 1
WithEnter ==
    /\ retPc = "entry"
    /\ IF ~retCfg.Action
          THEN /\ Return(Nil, "action is nil")
               /\ retPc' = "returned"
               /\ UNCHANGED attempt
          ELSE /\ attempt' = 1
               /\ retPc' = "loop"
               /\ UNCHANGED retOut
    /\ UNCHANGED <<retCfg, res, err, retLog>>

\* attempt <= in.MaxRetries fails: the loop ends, return &res, nil
WithLoopEnd ==
    /\ retPc = "loop"
    /\ ~(attempt <= retCfg.MaxRetries)
    /\ Return(res, Nil)
    /\ retPc' = "returned"
    /\ UNCHANGED <<retCfg, attempt, res, err, retLog>>

\* res, err = in.Action()
WithAction ==
    /\ retPc = "loop"
    /\ attempt <= retCfg.MaxRetries
    /\ \E v \in RetryValues, e \in RetryErrors \cup {Nil} :
          /\ res' = v
          /\ err' = e
          /\ retLog' = Append(retLog, [ev |-> "Action", n |-> attempt, err |-> e])
    /\ retPc' = "acted"
    /\ UNCHANGED <<retCfg, attempt, retOut>>

\* if err == nil { return &res, nil }
WithSuccess ==
    /\ retPc = "acted"
    /\ err = Nil
    /\ Return(res, Nil)
    /\ retPc' = "returned"
    /\ UNCHANGED <<retCfg, attempt, res, err, retLog>>

\* if in.AttemptErrorCallback != nil { in.AttemptErrorCallback(attempt, err) }
WithAttemptError ==
    /\ retPc = "acted"
    /\ err # Nil
    /\ retLog' = IF retCfg.AttemptErrorCallback
                    THEN Append(retLog, [ev |-> "AttemptErrorCallback",
                                         n |-> attempt, err |-> err])
                    ELSE retLog
    /\ retPc' = "failed"
    /\ UNCHANGED <<retCfg, attempt, res, err, retOut>>

\* attempt >= in.MaxRetries
NoMoreAttemptsNever(a) == a > retCfg.MaxRetries

NoMoreAttempts(a) == a >= retCfg.MaxRetries

\* if attempt >= in.MaxRetries { NoMoreAttemptsCallback(err); return nil, err }
WithNoMoreAttempts ==
    /\ retPc = "failed"
    /\ NoMoreAttempts(attempt)
    /\ retLog' = IF retCfg.NoMoreAttemptsCallback
                    THEN Append(retLog, [ev |-> "NoMoreAttemptsCallback",
                                         n |-> attempt, err |-> err])
                    ELSE retLog
    /\ Return(Nil, err)
    /\ retPc' = "returned"
    /\ UNCHANGED <<retCfg, attempt, res, err>>

\* attempt++
WithNextAttempt ==
    /\ retPc = "failed"
    /\ ~NoMoreAttempts(attempt)
    /\ attempt' = attempt + 1
    /\ retPc' = "loop"
    /\ UNCHANGED <<retCfg, res, err, retLog, retOut>>

(***************************************************************************)
(* Properties of retry.With (checked under SpecRetry)                      *)
(***************************************************************************)
EventsOf(kind) == SelectSeq(retLog, LAMBDA e : e.ev = kind)

Invocations == EventsOf("Action")

FailedInvocations == SelectSeq(Invocations, LAMBDA e : e.err # Nil)

\* C26 (retry.With contract): Action runs at most MaxRetries times and never
\* again after a success, whose value is returned with a nil error; when
\* MaxRetries attempts were made and all failed the result is nil and the error
\* is the last attempt's; AttemptErrorCallback runs once per failed attempt,
\* right after it, with the attempt's number counted from 1 and its error;
\* NoMoreAttemptsCallback runs at most once, last, after the MaxRetries-th
\* failure, and does run when the attempts are exhausted.
C26_RetryContract ==
    LET n == Len(Invocations)
        cbs == EventsOf("AttemptErrorCallback")
        nomore == EventsOf("NoMoreAttemptsCallback")
    IN  /\ n = 0 \/ n <= retCfg.MaxRetries
        /\ \A i \in 1..n : Invocations[i].n = i
        /\ \A i \in 1..(n - 1) : Invocations[i].err # Nil
        /\ (retOut.done /\ n >= 1 /\ Invocations[n].err = Nil) =>
              /\ retOut.res = res
              /\ retOut.res \in RetryValues
              /\ retOut.err = Nil
        /\ (retOut.done /\ n >= 1 /\ n = retCfg.MaxRetries
                /\ Invocations[n].err # Nil) =>
              /\ retOut.res = Nil
              /\ retOut.err = Invocations[n].err
        /\ retCfg.AttemptErrorCallback =>
              /\ Len(cbs) <= Len(FailedInvocations)
              /\ \A i \in 1..Len(cbs) :
                    /\ cbs[i].n = i
                    /\ cbs[i].err = FailedInvocations[i].err
              /\ retPc \in {"loop", "failed", "returned"} =>
                    Len(cbs) = Len(FailedInvocations)
        /\ ~retCfg.AttemptErrorCallback => cbs = <<>>
        /\ Len(nomore) <= 1
        /\ nomore # <<>> =>
              /\ retCfg.NoMoreAttemptsCallback
              /\ retLog[Len(retLog)] = nomore[1]
              /\ n = retCfg.MaxRetries
              /\ Len(FailedInvocations) = n
              /\ nomore[1].err = Invocations[n].err
              /\ retOut.done
        /\ (retOut.done /\ retCfg.NoMoreAttemptsCallback /\ n >= 1
                /\ n = retCfg.MaxRetries /\ Invocations[n].err # Nil) =>
              Len(nomore) = 1

\* C34 (a nil error means a successful attempt): With returns a nil error only
\* if Action was invoked at least once and its last invocation returned a nil
\* error, for every MaxRetries, zero and negative values included.
C34_NilErrorMeansSuccess ==
    (retOut.done /\ retOut.err = Nil) =>
        /\ Len(Invocations) >= 1
        /\ Invocations[Len(Invocations)].err = Nil

\* With returned after three attempts that failed with different errors, both
\* callbacks set.
C26_Witness ==
    /\ retOut.done
    /\ retCfg.MaxRetries = 3
    /\ retCfg.AttemptErrorCallback
    /\ retCfg.NoMoreAttemptsCallback
    /\ Len(FailedInvocations) = 3
    /\ Invocations[1].err = "e1"
    /\ Invocations[3].err = "e2"
    /\ retOut = [done |-> TRUE, res |-> Nil, err |-> "e2"]
    /\ Len(EventsOf("AttemptErrorCallback")) = 3
    /\ Len(EventsOf("NoMoreAttemptsCallback")) = 1

(***************************************************************************)
(* FileSink                                                                *)
(***************************************************************************)
\* A line of the file: the JSON line of record rec, whole or cut short by a
\* write that failed part-way.  Record 0 is a line the file held before.
FileLine(r) == [rec |-> r, whole |-> TRUE]

PartialLine(r) == [rec |-> r, whole |-> FALSE]

NoFileOp == [op |-> "none", rec |-> 0, ret |-> "nil", pre |-> <<>>, synced |-> FALSE]

FileRest ==
    /\ fileData = <<>>
    /\ fileInit = <<>>
    /\ fileOpen = FALSE
    /\ fileDurable = 0
    /\ fileWrites = 0
    /\ fileAccepted = <<>>
    /\ fileLast = NoFileOp

\* NewFileSink(filepath) returned a sink: os.OpenFile(filepath,
\* O_CREATE|O_WRONLY|O_APPEND) opened a new, empty file or a file with content.
NewFileSinkOpened ==
    /\ fileInit \in {<<>>, <<FileLine(0)>>, <<FileLine(0), FileLine(0)>>}
    /\ fileData = fileInit
    /\ fileOpen = TRUE
    /\ fileDurable = 0
    /\ fileWrites = 0
    /\ fileAccepted = <<>>
    /\ fileLast = NoFileOp

\* What s.file.Write(append(jsonOutput, '\n')) can do to a file opened with
\* O_APPEND: append the whole line, or fail having appended nothing or the
\* beginning of the line.
FileWriteOutcomes(r) ==
    {[ok |-> TRUE, data |-> Append(fileData, FileLine(r))],
     [ok |-> FALSE, data |-> fileData],
     [ok |-> FALSE, data |-> Append(fileData, PartialLine(r))]}

\* return s.file.Sync()
SyncResultIgnored(syncOk) == "nil"

SyncResult(syncOk) == IF syncOk THEN "nil" ELSE "err"

\* func (s *FileSink) Write(msg Message) error, the mutex held throughout
FileSinkWrite ==
    /\ fileWrites < MaxFileWrites
    /\ fileWrites' = fileWrites + 1
    /\ LET r == fileWrites + 1 IN
       \E marshalOk \in BOOLEAN, syncOk \in BOOLEAN :
          IF ~marshalOk THEN
              \* json.Marshal failed: nothing is written
              /\ fileLast' = [op |-> "Write", rec |-> r, ret |-> "err",
                              pre |-> fileData, synced |-> FALSE]
              /\ UNCHANGED <<fileData, fileDurable, fileAccepted>>
          ELSE IF ~fileOpen THEN
              \* the file is closed: s.file.Write fails
              /\ fileLast' = [op |-> "Write", rec |-> r, ret |-> "err",
                              pre |-> fileData, synced |-> FALSE]
              /\ UNCHANGED <<fileData, fileDurable, fileAccepted>>
          ELSE \E w \in FileWriteOutcomes(r) :
              /\ fileData' = w.data
              /\ IF ~w.ok
                    THEN /\ fileLast' = [op |-> "Write", rec |-> r, ret |-> "err",
                                         pre |-> fileData, synced |-> FALSE]
                         /\ UNCHANGED <<fileDurable, fileAccepted>>
                    ELSE /\ fileLast' = [op |-> "Write", rec |-> r,
                                         ret |-> SyncResult(syncOk),
                                         pre |-> fileData, synced |-> syncOk]
                         /\ fileDurable' = IF syncOk THEN Len(w.data) ELSE fileDurable
                         /\ fileAccepted' = IF SyncResult(syncOk) = "nil"
                                               THEN Append(fileAccepted, r)
                                               ELSE fileAccepted
    /\ UNCHANGED <<fileInit, fileOpen>>

\* func (s *FileSink) Close() error
FileSinkClose ==
    /\ fileOpen
    /\ fileOpen' = FALSE
    /\ fileLast' = [op |-> "Close", rec |-> 0, ret |-> "nil", pre |-> fileData,
                    synced |-> FALSE]
    /\ UNCHANGED <<fileData, fileInit, fileDurable, fileWrites, fileAccepted>>

(***************************************************************************)
(* Properties of FileSink (checked under SpecFile)                         *)
(***************************************************************************)
IsPrefix(s, u) == Len(s) <= Len(u) /\ SubSeq(u, 1, Len(s)) = s

\* Every Write call made so far returned nil.
AllWritesSucceeded == Len(fileAccepted) = fileWrites

\* C23 (FileSink is append-only and ordered): after n Write calls that all
\* succeeded the file holds what it held at construction followed by the n
\* lines, one per write, in the order the writes held the lock; no operation
\* removes or rewrites what the file held before it; Write returns nil only
\* when the line was written whole and the Sync after it succeeded.
C23_AppendOnly ==
    /\ AllWritesSucceeded =>
          fileData = fileInit \o [i \in 1..fileWrites |-> FileLine(i)]
    /\ IsPrefix(fileLast.pre, fileData)
    /\ IsPrefix(fileInit, fileData)
    /\ (fileLast.op = "Write" /\ fileLast.ret = "nil") =>
          /\ fileLast.synced
          /\ fileData = Append(fileLast.pre, FileLine(fileLast.rec))
          /\ fileDurable = Len(fileData)

\* Three writes succeeded on a file that held a line at construction.
C23_Witness ==
    /\ fileInit = <<FileLine(0)>>
    /\ fileWrites = 3
    /\ AllWritesSucceeded
    /\ fileLast.op = "Write"
    /\ fileLast.ret = "nil"
    /\ fileData = <<FileLine(0), FileLine(1), FileLine(2), FileLine(3)>>

(***************************************************************************)
(* NewFileSink and the filesystem                                          *)
(***************************************************************************)
\* Paths are strings over a separator and two other characters; an entry of
\* the filesystem is named by the names on its path from the working
\* directory, which exists and is the empty sequence of names.
Separator == "/"
PathChars == {Separator, "a", "b"}

PathStrings == UNION {[1..n -> PathChars] : n \in 1..MaxPathLen}

\* The names of a path, empty names (doubled or trailing separators) dropped.
RECURSIVE Names(_)
Names(path) ==
    IF path = <<>> THEN <<>>
    ELSE LET rest == Names(Tail(path)) IN
         IF Head(path) = Separator THEN
             IF rest = <<>> \/ Head(rest) # <<>> THEN <<<<>>>> \o rest ELSE rest
         ELSE IF rest = <<>> THEN <<<<Head(path)>>>>
              ELSE <<<<Head(path)>> \o Head(rest)>> \o Tail(rest)

Entry(path) == SelectSeq(Names(path), LAMBDA n : n # <<>>)

IsDir(f, e) == e = <<>> \/ [entry |-> e, kind |-> "dir"] \in f

IsFile(f, e) == [entry |-> e, kind |-> "file"] \in f

Ancestors(e) == {SubSeq(e, 1, k) : k \in 1..(Len(e) - 1)}

\* os.MkdirAll(path, 0o755): creates path and its missing ancestors as
\* directories; fails, creating nothing, when one of them is a file.
MkdirAll(f, path) ==
    LET e == Entry(path)
        all == Ancestors(e) \cup {e}
    IN  IF \E d \in all : IsFile(f, d)
           THEN [ok |-> FALSE, fs |-> f]
           ELSE [ok |-> TRUE,
                 fs |-> f \cup {[entry |-> d, kind |-> "dir"] : d \in all \ {<<>>}}]

\* os.OpenFile(path, O_CREATE|O_WRONLY|O_APPEND, 0o644): opens the file,
\* creating it when missing; fails on a path that names a directory or ends
\* with a separator, and when the parent is not an existing directory.
OpenFile(f, path) ==
    LET e == Entry(path) IN
    IF e = <<>> \/ path[Len(path)] = Separator \/ IsDir(f, e)
          \/ ~IsDir(f, SubSeq(e, 1, Len(e) - 1))
       THEN [ok |-> FALSE, fs |-> f]
       ELSE [ok |-> TRUE, fs |-> f \cup {[entry |-> e, kind |-> "file"]}]

\* dir := filepath[:len(filepath)-len(filepath[len(filepath)-1:])]
\* filepath[len(filepath)-1:] is the last byte, so dir is filepath without it.
DirOf(path) == SubSeq(path, 1, Len(path) - Len(SubSeq(path, Len(path), Len(path))))

FsRest ==
    /\ fs = {}
    /\ newCalls = <<>>

\* An empty working directory, or one that holds the directory "a".
FsInit ==
    /\ fs \in {{}, {[entry |-> <<<<"a">>>>, kind |-> "dir"]}}
    /\ newCalls = <<>>

\* func NewFileSink(filepath string) (*FileSink, error)
NewFileSink(path) ==
    /\ Len(newCalls) < MaxNewFileSinks
    /\ LET dir == DirOf(path)
           made == IF dir # <<>> THEN MkdirAll(fs, dir) ELSE [ok |-> TRUE, fs |-> fs]
           opened == IF made.ok THEN OpenFile(made.fs, path) ELSE made
       IN  /\ fs' = opened.fs
           /\ newCalls' = Append(newCalls, [path |-> path, ok |-> opened.ok,
                                            pre |-> fs, post |-> opened.fs])

(***************************************************************************)
(* Properties of NewFileSink (checked under SpecNewFile)                   *)
(***************************************************************************)
\* The directory of a path: the entry that holds the path's last name.
ParentOf(path) == SubSeq(Entry(path), 1, Len(Entry(path)) - 1)

\* What a successful NewFileSink(path) may add: the missing ancestors of the
\* target, as directories, and the target file.
MayCreate(path) ==
    {[entry |-> d, kind |-> "dir"] : d \in Ancestors(Entry(path))}
        \cup {[entry |-> Entry(path), kind |-> "file"]}

\* C24 (NewFileSink frame): a NewFileSink that returned a sink left the target
\* file and its parent directories in place and created no other entry; and
\* the second of two calls for different files of the same directory succeeds
\* when the first did.
C24_NewFileSinkFrame ==
    /\ \A i \in 1..Len(newCalls) :
          newCalls[i].ok =>
              /\ IsFile(newCalls[i].post, Entry(newCalls[i].path))
              /\ \A d \in Ancestors(Entry(newCalls[i].path)) :
                    IsDir(newCalls[i].post, d)
              /\ newCalls[i].post \ newCalls[i].pre \subseteq MayCreate(newCalls[i].path)
    /\ (/\ Len(newCalls) = 2
        /\ newCalls[1].ok
        /\ newCalls[2].path[Len(newCalls[2].path)] # Separator
        /\ Entry(newCalls[1].path) # Entry(newCalls[2].path)
        /\ ParentOf(newCalls[1].path) = ParentOf(newCalls[2].path))
          => newCalls[2].ok

(***************************************************************************)
(* ConsoleSink                                                             *)
(***************************************************************************)
\* Output is a sequence of characters.  A message text is made of ordinary
\* characters, line feeds and double quotes; the fixed parts of a line (the
\* field names and punctuation of the JSON object) are single tokens that
\* hold no line feed.
LF == "LF"
Quote == "QUOTE"
Backslash == "BACKSLASH"
TextChars == {"m", LF, Quote}

Texts == UNION {[1..n -> TextChars] : n \in 0..MaxTextLen}

\* The text of the error json.Marshal returns ("json: unsupported type: ...").
MarshalError == "json: unsupported type"

\* encoding/json writes a string with line feeds and quotes escaped.
RECURSIVE JsonString(_)
JsonString(text) ==
    IF text = <<>> THEN <<>>
    ELSE (CASE Head(text) = LF    -> <<Backslash, "n">>
            [] Head(text) = Quote -> <<Backslash, Quote>>
            [] OTHER              -> <<Head(text)>>) \o JsonString(Tail(text))

\* string(jsonOutput) + "\n"
JsonLine(m) ==
    <<"{level:", m.level, ",message:">> \o JsonString(m.text) \o <<"}", LF>>

\* fmt.Sprintf(`{"level":"%s","message":"%s","context":{"error":"%s"}}`,
\*             msg.Level, msg.Message, err.Error()) + "\n"
DegradedLine(m, e) ==
    <<"{level:", m.level, ",message:">> \o m.text
        \o <<",context:{error:", e, "}}", LF>>

\* Message values handed to the sink; marshals: json.Marshal(msg) succeeds
\* (it fails on a context value encoding/json does not support).
ConsoleMessages == [level : FilLevels, text : Texts, marshals : BOOLEAN]

NoConOp ==
    [op |-> "none", msg |-> [level |-> Info, text |-> <<>>, marshals |-> TRUE],
     stream |-> "stdout", emitted |-> <<>>, written |-> FALSE, ret |-> "nil"]

ConRest ==
    /\ stdout = <<>>
    /\ conStderr = <<>>
    /\ conWrites = 0
    /\ conLast = NoConOp

\* printer := os.Stdout; if msg.Level == Error { printer = os.Stderr }
Printer(m) == IF m.level = Error THEN "stderr" ELSE "stdout"

\* printer.WriteString(s): writes s, or fails having written nothing or the
\* beginning of s.
WriteStringOutcomes(s) ==
    {[ok |-> TRUE, out |-> s],
     [ok |-> FALSE, out |-> <<>>],
     [ok |-> FALSE, out |-> SubSeq(s, 1, 1)]}

\* func (s ConsoleSink) Write(msg Message) error
ConsoleWrite(m) ==
    /\ conWrites < MaxConsoleWrites
    /\ conWrites' = conWrites + 1
    /\ LET line == IF m.marshals THEN JsonLine(m) ELSE DegradedLine(m, MarshalError)
       IN \E w \in WriteStringOutcomes(line) :
             /\ stdout' = IF Printer(m) = "stdout" THEN stdout \o w.out ELSE stdout
             /\ conStderr' = IF Printer(m) = "stderr" THEN conStderr \o w.out
                                                     ELSE conStderr
             /\ conLast' = [op |-> "Write", msg |-> m, stream |-> Printer(m),
                            emitted |-> w.out, written |-> w.ok,
                            ret |-> IF w.ok THEN "nil" ELSE "err"]

(***************************************************************************)
(* Properties of ConsoleSink (checked under SpecCon)                       *)
(***************************************************************************)
LineFeeds(s) == Cardinality({i \in 1..Len(s) : s[i] = LF})

\* C25 (ConsoleSink.Write): a Write whose stream write succeeds emits exactly
\* one line, to the error stream exactly when the level is ERROR and to
\* standard output otherwise; when the encoding fails the line is the degraded
\* one, which embeds the encoding error, on that same stream, and the Write
\* does not fail for it; Write returns an error only when the stream write
\* failed.
C25_ConsoleWrite ==
    conLast.op = "Write" =>
        /\ conLast.stream = "stderr" <=> conLast.msg.level = Error
        /\ conLast.ret = "err" <=> ~conLast.written
        /\ conLast.written =>
              /\ LineFeeds(conLast.emitted) = 1
              /\ conLast.emitted[Len(conLast.emitted)] = LF
        /\ (conLast.written /\ ~conLast.msg.marshals) =>
              \E i \in 1..Len(conLast.emitted) : conLast.emitted[i] = MarshalError

(***************************************************************************)
(* The logger over a first sink that wraps a destination                   *)
(***************************************************************************)
\* The first registered sink is a sink that writes to its destination itself
\* (ConsoleSink, WriterSink, FileSink), a FilterSink with an allow-set over
\* such a sink, or a BufferedSink with a capacity over such a sink.
FirstSinks ==
    {[kind |-> "direct", levels |-> Levels, size |-> 1]}
        \cup {[kind |-> "filter", levels |-> L, size |-> 1] : L \in SUBSET Levels}
        \cup {[kind |-> "buffered", levels |-> Levels, size |-> n] :
                  n \in 1..MaxFirstBuffer}

VisRest ==
    /\ firstSink = [kind |-> "direct", levels |-> Levels, size |-> 1]
    /\ firstQueue = <<>>
    /\ firstReached = <<>>

\* NewLoggerWithSinks(first, ...): a FilterSink or BufferedSink that is first
\* wraps a destination that accepts every write, so its own Write returns nil.
VisInit ==
    /\ LogInit
    /\ sinks # <<>>
    /\ firstSink \in FirstSinks
    /\ firstSink.kind # "direct" => beh[sinks[1]] = "ok"
    /\ firstQueue = <<>>
    /\ firstReached = <<>>

\* What a Write of m that returned nil did, when the sink written to is the
\* first sink: a direct sink emitted m; FilterSink.Write passed m on only if
\* s.levels[msg.Level]; BufferedSink.Write queued m and flushed the queue to
\* the wrapped sink only if len(s.buffer) >= s.bufferSize.
FirstSinkEffect(c) ==
    IF ~(c.sink = sinks[1] /\ c.ok) THEN UNCHANGED <<firstQueue, firstReached>>
    ELSE CASE firstSink.kind = "direct" ->
                /\ firstReached' = Append(firstReached, c.msg)
                /\ UNCHANGED firstQueue
           [] firstSink.kind = "filter" ->
                /\ firstReached' = IF c.msg.level \in firstSink.levels
                                      THEN Append(firstReached, c.msg)
                                      ELSE firstReached
                /\ UNCHANGED firstQueue
           [] firstSink.kind = "buffered" ->
                IF Len(firstQueue) + 1 >= firstSink.size
                   THEN /\ firstReached' = firstReached \o Append(firstQueue, c.msg)
                        /\ firstQueue' = <<>>
                   ELSE /\ firstQueue' = Append(firstQueue, c.msg)
                        /\ UNCHANGED firstReached

\* a log call starts
VisLog(level) ==
    /\ printWithLevel(level)
    /\ firstReached' = <<>>
    /\ UNCHANGED <<firstSink, firstQueue>>

\* sink.Write(msg) in the range loop
VisSinkWrite ==
    /\ SinkWrite
    /\ FirstSinkEffect(calls'[Len(calls')])
    /\ UNCHANGED firstSink

\* l.sinks[0].Write(Message{Level: Error, Message: "Logger sink error", ...})
VisFallbackWrite ==
    /\ FallbackWrite
    /\ FirstSinkEffect(calls'[Len(calls')])
    /\ UNCHANGED firstSink

(***************************************************************************)
(* Properties of the logger over a wrapping first sink (under SpecVis)     *)
(***************************************************************************)
\* The positions in calls of the Writes of the log message that failed.
FailedWrites == {j \in 1..Len(calls) : calls[j].msg.kind = "log" /\ ~calls[j].ok}

\* C28 (sink failures are made visible): when a log call has returned, every
\* failure of a sink's Write during it has its report either at the
\* destination behind the first registered sink or on the process's error
\* stream, whatever the first sink is.
C28_FailureVisible ==
    pc = "returned" =>
        \A j \in FailedWrites :
            \/ \E k \in 1..Len(firstReached) :
                  /\ firstReached[k].kind = "report"
                  /\ firstReached[k] = calls[j + 1].msg
            \/ \E k \in 1..Len(stderr) : stderr[k] = calls[j + 1].msg.about

(***************************************************************************)
(* maps.MapErr and maps.MapParallelErr (pkg/util/maps/functions.go).  The  *)
(* collection is known by what iteratee returns for each of its items;     *)
(* item i of the model is collection[i-1] of the code.                     *)
(***************************************************************************)
IterateeResults == {"a", "b"}

IterateeError == "err"

Iteratees ==
    UNION {[1..n -> IterateeResults \cup {IterateeError}] : n \in 0..MaxItems}

\* a nil slice, and the slice (nil or not) of the given elements
NilSlice == [nil |-> TRUE, items |-> <<>>]

Slice(items) == [nil |-> FALSE, items |-> items]

\* The error that iteratee returned for item i, and the nil error.
IterateeErr(i) == [item |-> i]

NoError == [item |-> 0]

\* for i, item := range collection { ... } of MapErr, from item i on
RECURSIVE MapErrFrom(_, _, _)
MapErrFrom(it, i, result) ==
    IF i > Len(it)
       THEN [slice |-> Slice(result), err |-> NoError]
       ELSE IF it[i] = IterateeError
               THEN [slice |-> NilSlice, err |-> IterateeErr(i)]
               ELSE MapErrFrom(it, i + 1, Append(result, it[i]))

\* func MapErr(collection []T, iteratee func(T, int) (R, error)) ([]R, error)
MapErr(it) == MapErrFrom(it, 1, <<>>)

NoMapOut == [done |-> FALSE, slice |-> NilSlice, err |-> NoError]

MapRest ==
    /\ mapIteratee = <<>>
    /\ mapPc = "start"
    /\ mapRunning = {}
    /\ syncStore = {}
    /\ mapErr = NoError
    /\ mapResult = <<>>
    /\ mapVisited = {}
    /\ mapOut = NoMapOut

\* MapParallelErr(collection, iteratee) is called
MapInit ==
    /\ mapIteratee \in Iteratees
    /\ mapPc = "start"
    /\ mapRunning = {}
    /\ syncStore = {}
    /\ mapErr = NoError
    /\ mapResult = <<>>
    /\ mapVisited = {}
    /\ mapOut = NoMapOut

\* for i, item := range collection { errG.Go(func() error { ... }) }
MapParallelGo ==
    /\ mapPc = "start"
    /\ mapRunning' = 1..Len(mapIteratee)
    /\ mapPc' = "wait"
    /\ UNCHANGED <<mapIteratee, syncStore, mapErr, mapResult, mapVisited, mapOut>>

\* the goroutine of item i runs: iteratee(item, i), then syncStore.Store(i,
\* res) or return err; errgroup keeps the first error returned
MapGoroutine(i) ==
    /\ i \in mapRunning
    /\ mapRunning' = mapRunning \ {i}
    /\ IF mapIteratee[i] = IterateeError
          THEN /\ mapErr' = IF mapErr = NoError THEN IterateeErr(i) ELSE mapErr
               /\ UNCHANGED syncStore
          ELSE /\ syncStore' = syncStore \cup {<<i, mapIteratee[i]>>}
               /\ UNCHANGED mapErr
    /\ UNCHANGED <<mapIteratee, mapPc, mapResult, mapVisited, mapOut>>

\* err := errG.Wait(); if err != nil { return nil, err }; result := make([]R, 0)
MapWait ==
    /\ mapPc = "wait"
    /\ mapRunning = {}
    /\ IF mapErr # NoError
          THEN /\ mapOut' = [done |-> TRUE, slice |-> NilSlice, err |-> mapErr]
               /\ mapPc' = "returned"
          ELSE /\ mapPc' = "range"
               /\ UNCHANGED mapOut
    /\ UNCHANGED <<mapIteratee, mapRunning, syncStore, mapErr, mapResult,
                   mapVisited>>

\* The entries syncStore.Range may pass to its callback next: sync.Map visits
\* each key once, in no order that the documentation of Range promises.
RangeNext == {e \in syncStore : e[1] \notin mapVisited}

\* syncStore.Range(func(key, value any) bool { result = append(result,
\* value.(R)); return true }), one entry
MapRangeEntry ==
    /\ mapPc = "range"
    /\ \E e \in RangeNext :
          /\ mapResult' = Append(mapResult, e[2])
          /\ mapVisited' = mapVisited \cup {e[1]}
    /\ UNCHANGED <<mapIteratee, mapPc, mapRunning, syncStore, mapErr, mapOut>>

\* return result, nil
MapReturn ==
    /\ mapPc = "range"
    /\ RangeNext = {}
    /\ mapOut' = [done |-> TRUE, slice |-> Slice(mapResult), err |-> NoError]
    /\ mapPc' = "returned"
    /\ UNCHANGED <<mapIteratee, mapRunning, syncStore, mapErr, mapResult,
                   mapVisited>>

\* C35 (MapParallelErr agrees with MapErr): when iteratee succeeds on every
\* item MapParallelErr returns the slice MapErr returns, element i being the
\* result of iteratee for item i, in whatever order the goroutines finish;
\* when a call of iteratee fails both return a nil slice and an error.
C35_ParallelAgrees ==
    mapOut.done =>
        LET seq == MapErr(mapIteratee) IN
        /\ seq.err = NoError =>
              /\ mapOut.err = NoError
              /\ mapOut.slice = seq.slice
              /\ \A i \in 1..Len(mapIteratee) :
                    /\ i <= Len(mapOut.slice.items)
                    /\ mapOut.slice.items[i] = mapIteratee[i]
        /\ seq.err # NoError =>
              /\ seq.slice = NilSlice
              /\ mapOut.slice = NilSlice
              /\ mapOut.err # NoError

(***************************************************************************)
(* service.WithReadBody and service.ReadBody (pkg/service)                 *)
(***************************************************************************)
BodyChars == {"{", "}", "x"}

Bodies == UNION {[1..n -> BodyChars] : n \in 0..MaxBodyLen}

\* json.Unmarshal(bodyBytes, &runConfig) for a struct T without fields: the
\* empty object is the body it accepts among Bodies.
Unmarshal(body) ==
    IF body = <<"{", "}">>
       THEN [err |-> Nil, model |-> "T{}"]
       ELSE [err |-> "SyntaxError", model |-> Nil]

\* What callback may return: a result or nil, with or without an error.
CallbackReturns == [res : {Nil, "R{}"}, err : {Nil, "callback error"}]

NoReadOut == [model |-> Nil, success |-> FALSE]

NoBodyOut == [done |-> FALSE, res |-> Nil, success |-> FALSE, called |-> FALSE]

BodyRest ==
    /\ reqBody = <<>>
    /\ reqDebug = FALSE
    /\ cbReturns = [res |-> Nil, err |-> Nil]
    /\ bodyPc = "start"
    /\ readOut = NoReadOut
    /\ responses = <<>>
    /\ errorLog = <<>>
    /\ bodyOut = NoBodyOut

\* a request arrives and its handler calls WithReadBody
BodyInit ==
    /\ reqBody \in Bodies
    /\ reqDebug \in BOOLEAN
    /\ cbReturns \in CallbackReturns
    /\ bodyPc = "start"
    /\ readOut = NoReadOut
    /\ responses = <<>>
    /\ errorLog = <<>>
    /\ bodyOut = NoBodyOut

\* func ReadBody[T any](ctx, s, c) (*T, bool), called by WithReadBody
ReadBody ==
    /\ bodyPc = "start"
    /\ LET u == Unmarshal(reqBody) IN
       IF u.err # Nil
          THEN /\ errorLog' = Append(errorLog,
                                     [err |-> u.err,
                                      body |-> IF reqDebug THEN reqBody ELSE <<>>])
               /\ responses' = Append(responses, [code |-> 500, by |-> "ReadBody"])
               /\ readOut' = [model |-> Nil, success |-> FALSE]
          ELSE /\ readOut' = [model |-> u.model, success |-> TRUE]
               /\ UNCHANGED <<errorLog, responses>>
    /\ bodyPc' = "read"
    /\ UNCHANGED <<reqBody, reqDebug, cbReturns, bodyOut>>

\* WithReadBody, ReadBody having returned success: res, err = callback(model)
WithReadBodyCallback ==
    /\ bodyPc = "read"
    /\ readOut.success
    /\ IF cbReturns.err # Nil
          THEN /\ responses' = Append(responses,
                                      [code |-> 500, by |-> "WithReadBody"])
               /\ bodyOut' = [done |-> TRUE, res |-> cbReturns.res,
                              success |-> FALSE, called |-> TRUE]
          ELSE /\ bodyOut' = [done |-> TRUE, res |-> cbReturns.res,
                              success |-> TRUE, called |-> TRUE]
               /\ UNCHANGED responses
    /\ bodyPc' = "returned"
    /\ UNCHANGED <<reqBody, reqDebug, cbReturns, readOut, errorLog>>

\* WithReadBody, ReadBody having returned false: the if is skipped and the
\* function ends at return res, true
WithReadBodySkipped ==
    /\ bodyPc = "read"
    /\ ~readOut.success
    /\ bodyOut' = [done |-> TRUE, res |-> Nil, success |-> TRUE,
                   called |-> FALSE]
    /\ bodyPc' = "returned"
    /\ UNCHANGED <<reqBody, reqDebug, cbReturns, readOut, responses, errorLog>>

\* C36 (the success flag of WithReadBody): WithReadBody returns false
\* whenever an error response has been emitted for the request, by ReadBody
\* (the body could not be unmarshalled) or by WithReadBody itself (callback
\* returned an error); it returns true only when the body was read and
\* callback ran without error.
C36_SuccessFlag ==
    bodyOut.done =>
        /\ responses # <<>> => ~bodyOut.success
        /\ bodyOut.success =>
              /\ Unmarshal(reqBody).err = Nil
              /\ bodyOut.called
              /\ cbReturns.err = Nil

(***************************************************************************)
(* service.New and its options (pkg/service/service.go, options.go)        *)
(***************************************************************************)
lambdaRoutingTypeFunctionUrl == "function-url"

lambdaRoutingTypeApiGw == "api-gateway"

\* The values of SIMPLE_CONTAINER_AWS_LAMBDA_ROUTING_TYPE, PORT and
\* SIMPLE_CONTAINER_AWS_LAMBDA_INVOKE_MODE ("" when unset).
Environments ==
    [routingType : {"", lambdaRoutingTypeFunctionUrl, lambdaRoutingTypeApiGw},
     port : {"", "9090"},
     invokeMode : {"", "RESPONSE_STREAM"}]

Option(name, arg) == [name |-> name, arg |-> arg]

\* The options a caller passes: WithRoutes(callback) and WithPort("7070").
UserOptions ==
    UNION {[1..n -> {Option("WithRoutes", "callback"), Option("WithPort", "7070")}] :
              n \in 0..MaxUserOptions}

\* s := &service{ctx: ctx}
NewService ==
    [port |-> "", routingType |-> "", version |-> "",
     registerRoutesCallback |-> Nil, useResponseStreaming |-> FALSE]

NoOption == [opt |-> Option("none", ""), before |-> NewService,
             after |-> NewService]

NoSvcOut == [done |-> FALSE, err |-> Nil, lambdaStartFunc |-> Nil, addr |-> ""]

SvcRest ==
    /\ svcEnv = [routingType |-> "", port |-> "", invokeMode |-> ""]
    /\ svcUser = <<>>
    /\ svcOpts = <<>>
    /\ svc = NewService
    /\ svcPc = "new"
    /\ svcLast = NoOption
    /\ svcOut = NoSvcOut

\* New(ctx, opts...) is called
SvcInit ==
    /\ svcEnv \in Environments
    /\ svcUser \in UserOptions
    /\ svcOpts = <<>>
    /\ svc = NewService
    /\ svcPc = "new"
    /\ svcLast = NoOption
    /\ svcOut = NoSvcOut

\* What each Option does to s when it is applied.
ApplyOption(o, s) ==
    CASE o.name = "WithRoutingType" -> [s EXCEPT !.port = o.arg]
      [] o.name = "WithPort" -> [s EXCEPT !.port = o.arg]
      [] o.name = "WithVersion" -> [s EXCEPT !.version = o.arg]
      [] o.name = "WithRoutes" -> [s EXCEPT !.registerRoutesCallback = o.arg]
      [] o.name = "UseResponseStreaming" -> [s EXCEPT !.useResponseStreaming = o.arg]

\* New: each opts = append([]Option{...}, opts...) puts its option in front
\* of the ones prepended before it and of the caller's
NewPrependOptions ==
    /\ svcPc = "new"
    /\ svcOpts' =
          (IF svcEnv.invokeMode = "RESPONSE_STREAM"
              THEN <<Option("UseResponseStreaming", TRUE)>> ELSE <<>>)
          \o (IF svcEnv.port # "" THEN <<Option("WithPort", svcEnv.port)>> ELSE <<>>)
          \o <<Option("WithRoutingType", svcEnv.routingType),
               Option("WithVersion", "v1")>>
          \o svcUser
    /\ svcPc' = "options"
    /\ UNCHANGED <<svcEnv, svcUser, svc, svcLast, svcOut>>

\* New: for _, opt := range opts { opt(s) }, one option
NewApplyOption ==
    /\ svcPc = "options"
    /\ svcOpts # <<>>
    /\ svc' = ApplyOption(Head(svcOpts), svc)
    /\ svcLast' = [opt |-> Head(svcOpts), before |-> svc, after |-> svc']
    /\ svcOpts' = Tail(svcOpts)
    /\ UNCHANGED <<svcEnv, svcUser, svcPc, svcOut>>

\* fmt.Sprintf("0.0.0.0:%s", lo.If(s.port != "", s.port).Else("8080")): the
\* port of the address
ServerPort(s) == IF s.port # "" THEN s.port ELSE "8080"

\* New, after the options: the router and the Lambda handler are chosen, the
\* server is built and the routes are registered
NewSetUp ==
    /\ svcPc = "options"
    /\ svcOpts = <<>>
    /\ svcOut' =
          LET start == IF svc.useResponseStreaming
                          THEN "FunctionURLStreamingHandler"
                          ELSE CASE svc.routingType = lambdaRoutingTypeFunctionUrl ->
                                        "ProxyLambdaFunctionURL"
                                 [] svc.routingType = lambdaRoutingTypeApiGw ->
                                        "ProxyLambdaApiGateway"
                                 [] OTHER -> Nil
          IN  IF start = Nil
                 THEN [NoSvcOut EXCEPT !.done = TRUE,
                                       !.err = "Unknown routing type"]
                 ELSE IF svc.registerRoutesCallback = Nil
                         THEN [NoSvcOut EXCEPT
                                 !.done = TRUE,
                                 !.err = "register routes callback is not set"]
                         ELSE [done |-> TRUE, err |-> Nil, lambdaStartFunc |-> start,
                               addr |-> ServerPort(svc)]
    /\ svcPc' = "returned"
    /\ UNCHANGED <<svcEnv, svcUser, svcOpts, svc, svcLast>>

\* The Lambda handler that matches a routing type.
HandlerOf(routingType) ==
    IF routingType = lambdaRoutingTypeFunctionUrl
       THEN "ProxyLambdaFunctionURL"
       ELSE "ProxyLambdaApiGateway"

\* C37 (the routing-type option): WithRoutingType(t) sets the routing type
\* of the service to t and leaves its port as it was; so New, with
\* SIMPLE_CONTAINER_AWS_LAMBDA_ROUTING_TYPE set to function-url or api-gateway
\* (and no response streaming), does not fail with an unknown-routing-type
\* error and, when it succeeds, has selected the matching Lambda handler; and
\* the port given through PORT, when the caller passes no WithPort, is the
\* port of the server New returns.
C37_RoutingTypeOption ==
    /\ svcLast.opt.name = "WithRoutingType" =>
          /\ svcLast.after.routingType = svcLast.opt.arg
          /\ svcLast.after.port = svcLast.before.port
    /\ (/\ svcOut.done
        /\ svcEnv.routingType # ""
        /\ svcEnv.invokeMode = "") =>
          /\ svcOut.err # "Unknown routing type"
          /\ svcOut.err = Nil => svcOut.lambdaStartFunc = HandlerOf(svcEnv.routingType)
    /\ (/\ svcOut.done
        /\ svcOut.err = Nil
        /\ svcEnv.port # ""
        /\ \A i \in 1..Len(svcUser) : svcUser[i].name # "WithPort") =>
          svcOut.addr = svcEnv.port

(***************************************************************************)
(* Specifications                                                          *)
(***************************************************************************)
UtilRest == MapRest /\ BodyRest /\ SvcRest

AuxRest == RegRest /\ RetryRest /\ FileRest /\ FsRest /\ ConRest /\ VisRest /\ UtilRest

InitLog == LogInit /\ BufRest /\ BufConcRest /\ RotRest /\ RotConcRest /\ FilRest /\ WriInit /\ CtxInit /\ AuxRest

LogOnly == UNCHANGED <<bufVars, bufConcVars, rotVars, rotConcVars, filVars, wriVars, ctxVars, recVars, auxVars>>

NextLog ==
    \/ Infof /\ LogOnly
    \/ Warnf /\ LogOnly
    \/ Errorf /\ LogOnly
    \/ (\E s \in SinkIds : AddSink(s)) /\ LogOnly
    \/ (\E s \in SinkIds : RemoveSink(s)) /\ LogOnly
    \/ SinkWrite /\ LogOnly
    \/ FallbackWrite /\ LogOnly
    \/ StderrWrite /\ LogOnly
    \/ LogReturn /\ LogOnly

SpecLog == InitLog /\ [][NextLog]_vars

NextLogConc ==
    \/ Infof /\ LogOnly
    \/ Warnf /\ LogOnly
    \/ Errorf /\ LogOnly
    \/ (\E s \in SinkIds : AddSink(s)) /\ LogOnly
    \/ (\E s \in SinkIds : RemoveSink(s)) /\ LogOnly
    \/ (\E s \in SinkIds : ConcurrentAddSink(s)) /\ LogOnly
    \/ (\E s \in SinkIds : ConcurrentRemoveSink(s)) /\ LogOnly
    \/ SinkWrite /\ LogOnly
    \/ FallbackWrite /\ LogOnly
    \/ StderrWrite /\ LogOnly
    \/ LogReturn /\ LogOnly

SpecLogConc == InitLog /\ [][NextLogConc]_vars

InitBuf == BufInit /\ BufConcRest /\ LogRest /\ RotRest /\ RotConcRest /\ FilRest /\ WriInit /\ CtxInit /\ AuxRest

BufOnly == UNCHANGED <<logVars, bufConcVars, rotVars, rotConcVars, filVars, wriVars, ctxVars, recVars, auxVars>>

NextBuf ==
    \/ BufferedWrite /\ BufOnly
    \/ BufferedFlush /\ BufOnly
    \/ TimerExpire /\ BufOnly
    \/ TimerCallback /\ BufOnly

SpecBuf == InitBuf /\ [][NextBuf]_vars

BufConcOnly ==
    UNCHANGED <<logVars, rotVars, rotConcVars, filVars, wriVars, ctxVars,
                recVars, auxVars, bufferSize, callbacks, everExpired, everFlushed, bufLast>>

NextBufConc ==
    \/ BufWriteAppend /\ BufConcOnly
    \/ BufWriteStopTimer /\ BufConcOnly
    \/ BufWriteArmTimer /\ BufConcOnly
    \/ BufWriteCheckFull /\ BufConcOnly
    \/ BufWriteUnlock /\ BufConcOnly
    \/ BufTimerFire /\ BufConcOnly
    \/ BufTimerFlush /\ BufConcOnly

SpecBufConc == InitBuf /\ [][NextBufConc]_vars

NextBufLive ==
    \/ BufWriteAppend /\ BufConcOnly
    \/ BufWriteStopTimer /\ BufConcOnly
    \/ BufWriteArmTimer /\ BufConcOnly
    \/ BufWriteCheckFull /\ BufConcOnly
    \/ BufWriteUnlock /\ BufConcOnly
    \/ BufTimerFire /\ BufConcOnly
    \/ BufTimerFlush /\ BufConcOnly
    \/ BufFlushCall /\ BufConcOnly

\* The step a goroutine inside Write takes next.
BufWriteStep ==
    \/ BufWriteStopTimer
    \/ BufWriteArmTimer
    \/ BufWriteCheckFull
    \/ BufWriteUnlock

\* a timer callback that waits in s.Flush() runs
BufCallbackFlush == \E t \in fired \ {FlushCaller} : BufFlushBy(t)

\* A goroutine inside Write keeps running; a goroutine blocked in
\* s.mutex.Lock() gets the lock if it is released again and again
\* (sync.Mutex hands the lock to a waiter that has waited long; each timer
\* fires once, so the callbacks cannot overtake one another for ever).
\* Nothing obliges a caller to call Write or Flush, or a timer to fire.
BufLiveFairness ==
    /\ WF_vars(BufWriteStep /\ BufConcOnly)
    /\ SF_vars(BufCallbackFlush /\ BufConcOnly)
    /\ SF_vars(BufFlushBy(FlushCaller) /\ BufConcOnly)

SpecBufLive == InitBuf /\ [][NextBufLive]_vars /\ BufLiveFairness

InitRot == RotInit /\ RotConcRest /\ LogRest /\ BufRest /\ BufConcRest /\ FilRest /\ WriInit /\ CtxInit /\ AuxRest

RotOnly == UNCHANGED <<logVars, bufVars, bufConcVars, rotConcVars, filVars, wriVars, ctxVars, recVars, auxVars>>

NextRot ==
    \/ RotatingWrite /\ RotOnly
    \/ RotatingClose /\ RotOnly
    \/ NewRotatingFileSink /\ RotOnly

SpecRot == InitRot /\ [][NextRot]_vars

RotConcOnly ==
    UNCHANGED <<logVars, bufVars, bufConcVars, filVars, wriVars, ctxVars,
                recVars, auxVars, maxSize, maxFiles, cumSize, clean, rotLast>>

NextRotConc ==
    \/ (\E g \in Goroutines : RotWriteEnter(g)) /\ RotConcOnly
    \/ (\E g \in Goroutines : RotCloseOld(g)) /\ RotConcOnly
    \/ (\E g \in Goroutines : RotShift(g)) /\ RotConcOnly
    \/ (\E g \in Goroutines : RotRenameBase(g)) /\ RotConcOnly
    \/ (\E g \in Goroutines : RotReopen(g)) /\ RotConcOnly
    \/ (\E g \in Goroutines : RotWriteLine(g)) /\ RotConcOnly
    \/ (\E g \in Goroutines : RotCloseEnter(g)) /\ RotConcOnly
    \/ (\E g \in Goroutines : RotCloseFile(g)) /\ RotConcOnly
    \/ (\E g \in Goroutines : RotUnlock(g)) /\ RotConcOnly

SpecRotConc == InitRot /\ [][NextRotConc]_vars

InitFil == NewFilterSink /\ LogRest /\ BufRest /\ BufConcRest /\ RotRest /\ RotConcRest /\ WriInit /\ CtxInit /\ AuxRest

FilOnly == UNCHANGED <<logVars, bufVars, bufConcVars, rotVars, rotConcVars, wriVars, ctxVars, recVars, auxVars>>

NextFil ==
    \/ FilterWrite /\ FilOnly

SpecFil == InitFil /\ [][NextFil]_vars

InitWri == WriInit /\ LogRest /\ BufRest /\ BufConcRest /\ RotRest /\ RotConcRest /\ FilRest /\ CtxInit /\ AuxRest

WriOnly == UNCHANGED <<logVars, bufVars, bufConcVars, rotVars, rotConcVars, filVars, ctxVars, recVars, auxVars>>

NextWri ==
    \/ (\E g \in Goroutines : WriterLoad(g)) /\ WriOnly
    \/ (\E g \in Goroutines : WriterStore(g)) /\ WriOnly

SpecWri == InitWri /\ [][NextWri]_vars

InitCtx ==
    CtxInit /\ LogRest /\ BufRest /\ BufConcRest /\ RotRest /\ RotConcRest
    /\ FilRest /\ WriInit /\ AuxRest

CtxOnly ==
    UNCHANGED <<logVars, bufVars, bufConcVars, rotVars, rotConcVars, filVars,
                wriVars, recVars, auxVars>>

NextCtx ==
    \/ (\E g \in Goroutines : WithValueCopy(g)) /\ CtxOnly
    \/ (\E g \in Goroutines : WithValueAssign(g)) /\ CtxOnly
    \/ (\E g \in Goroutines : WithValueReturn(g)) /\ CtxOnly

SpecCtx == InitCtx /\ [][NextCtx]_vars

CtxLogOnly ==
    UNCHANGED <<logVars, bufVars, bufConcVars, rotVars, rotConcVars, filVars,
                wriVars, auxVars>>

\* One goroutine attaches values step by step while another logs.
NextCtxLog ==
    \/ WithValueCopy("g1") /\ CtxOnly
    \/ WithValueAssign("g1") /\ CtxOnly
    \/ WithValueReturn("g1") /\ CtxOnly
    \/ LogWithContext /\ CtxLogOnly

SpecCtxLog == InitCtx /\ [][NextCtxLog]_vars

InitReg ==
    RegInit /\ BufRest /\ BufConcRest /\ RotRest /\ RotConcRest /\ FilRest
    /\ WriInit /\ CtxInit /\ RetryRest /\ FileRest /\ FsRest /\ ConRest /\ VisRest /\ UtilRest

RegOnly ==
    UNCHANGED <<bufVars, bufConcVars, rotVars, rotConcVars, filVars, wriVars,
                ctxVars, recVars, retryVars, fileVars, fsVars, conVars, visVars, utilVars>>

NextReg ==
    \/ (\E s \in RegSinkIds : RegAddSink(s)) /\ RegOnly
    \/ (\E s \in RegSinkIds : RegRemoveSink(s)) /\ RegOnly

SpecReg == InitReg /\ [][NextReg]_vars

InitRetry ==
    RetryInit /\ LogRest /\ BufRest /\ BufConcRest /\ RotRest /\ RotConcRest
    /\ FilRest /\ WriInit /\ CtxInit /\ RegRest /\ FileRest /\ FsRest /\ ConRest
    /\ VisRest /\ UtilRest

RetryOnly ==
    UNCHANGED <<logVars, bufVars, bufConcVars, rotVars, rotConcVars, filVars,
                wriVars, ctxVars, recVars, regVars, fileVars, fsVars, conVars,
                visVars, utilVars>>

NextRetry ==
    \/ WithEnter /\ RetryOnly
    \/ WithLoopEnd /\ RetryOnly
    \/ WithAction /\ RetryOnly
    \/ WithSuccess /\ RetryOnly
    \/ WithAttemptError /\ RetryOnly
    \/ WithNoMoreAttempts /\ RetryOnly
    \/ WithNextAttempt /\ RetryOnly

SpecRetry == InitRetry /\ [][NextRetry]_vars

InitFile ==
    NewFileSinkOpened /\ LogRest /\ BufRest /\ BufConcRest /\ RotRest
    /\ RotConcRest /\ FilRest /\ WriInit /\ CtxInit /\ RegRest /\ RetryRest
    /\ FsRest /\ ConRest /\ VisRest /\ UtilRest

FileOnly ==
    UNCHANGED <<logVars, bufVars, bufConcVars, rotVars, rotConcVars, filVars,
                wriVars, ctxVars, recVars, regVars, retryVars, fsVars, conVars,
                visVars, utilVars>>

NextFile ==
    \/ FileSinkWrite /\ FileOnly
    \/ FileSinkClose /\ FileOnly

SpecFile == InitFile /\ [][NextFile]_vars

InitNewFile ==
    FsInit /\ LogRest /\ BufRest /\ BufConcRest /\ RotRest /\ RotConcRest
    /\ FilRest /\ WriInit /\ CtxInit /\ RegRest /\ RetryRest /\ FileRest
    /\ ConRest /\ VisRest /\ UtilRest

NewFileOnly ==
    UNCHANGED <<logVars, bufVars, bufConcVars, rotVars, rotConcVars, filVars,
                wriVars, ctxVars, recVars, regVars, retryVars, fileVars, conVars,
                visVars, utilVars>>

NextNewFile ==
    \/ (\E path \in PathStrings : NewFileSink(path)) /\ NewFileOnly

SpecNewFile == InitNewFile /\ [][NextNewFile]_vars

InitCon ==
    ConRest /\ LogRest /\ BufRest /\ BufConcRest /\ RotRest /\ RotConcRest
    /\ FilRest /\ WriInit /\ CtxInit /\ RegRest /\ RetryRest /\ FileRest /\ FsRest
    /\ VisRest /\ UtilRest

ConOnly ==
    UNCHANGED <<logVars, bufVars, bufConcVars, rotVars, rotConcVars, filVars,
                wriVars, ctxVars, recVars, regVars, retryVars, fileVars, fsVars,
                visVars, utilVars>>

NextCon ==
    \/ (\E m \in ConsoleMessages : ConsoleWrite(m)) /\ ConOnly

SpecCon == InitCon /\ [][NextCon]_vars

InitVis ==
    VisInit /\ BufRest /\ BufConcRest /\ RotRest /\ RotConcRest /\ FilRest
    /\ WriInit /\ CtxInit /\ RegRest /\ RetryRest /\ FileRest /\ FsRest /\ ConRest
    /\ UtilRest

VisOnly ==
    UNCHANGED <<bufVars, bufConcVars, rotVars, rotConcVars, filVars, wriVars,
                ctxVars, recVars, regVars, retryVars, fileVars, fsVars, conVars,
                utilVars>>

NextVis ==
    \/ VisLog(Info) /\ VisOnly
    \/ VisLog(Error) /\ VisOnly
    \/ VisSinkWrite /\ VisOnly
    \/ VisFallbackWrite /\ VisOnly
    \/ StderrWrite /\ UNCHANGED visVars /\ VisOnly
    \/ LogReturn /\ UNCHANGED visVars /\ VisOnly

SpecVis == InitVis /\ [][NextVis]_vars

loggerVars ==
    <<logVars, bufVars, bufConcVars, rotVars, rotConcVars, filVars, wriVars,
      ctxVars, recVars, regVars, retryVars, fileVars, fsVars, conVars, visVars>>

LoggerRest ==
    /\ LogRest /\ BufRest /\ BufConcRest /\ RotRest /\ RotConcRest /\ FilRest
    /\ WriInit /\ CtxInit /\ RegRest /\ RetryRest /\ FileRest /\ FsRest
    /\ ConRest /\ VisRest

InitMap == MapInit /\ LoggerRest /\ BodyRest /\ SvcRest

MapOnly == UNCHANGED <<loggerVars, bodyVars, svcVars>>

NextMap ==
    \/ MapParallelGo /\ MapOnly
    \/ (\E i \in mapRunning : MapGoroutine(i)) /\ MapOnly
    \/ MapWait /\ MapOnly
    \/ MapRangeEntry /\ MapOnly
    \/ MapReturn /\ MapOnly

SpecMap == InitMap /\ [][NextMap]_vars

InitBody == BodyInit /\ LoggerRest /\ MapRest /\ SvcRest

BodyOnly == UNCHANGED <<loggerVars, mapVars, svcVars>>

NextBody ==
    \/ ReadBody /\ BodyOnly
    \/ WithReadBodyCallback /\ BodyOnly
    \/ WithReadBodySkipped /\ BodyOnly

SpecBody == InitBody /\ [][NextBody]_vars

InitSvc == SvcInit /\ LoggerRest /\ MapRest /\ BodyRest

SvcOnly == UNCHANGED <<loggerVars, mapVars, bodyVars>>

NextSvc ==
    \/ NewPrependOptions /\ SvcOnly
    \/ NewApplyOption /\ SvcOnly
    \/ NewSetUp /\ SvcOnly

SpecSvc == InitSvc /\ [][NextSvc]_vars

====
